---- MODULE Spec2Model ----
(***************************************************************************)
(* Model of the speech-recognition layer of rust-servers/src/voice/asr:    *)
(* the three fallback strategies of fallback.rs, the HTTP engines and      *)
(* their retry delays, the streaming sessions of realtime/doubao.rs and    *)
(* realtime/qwen.rs, the realtime transcription task, the ASREngine trait  *)
(* on the five engines, the binary frames of the Doubao protocol,          *)
(* strip_trailing_punctuation and the task's partial-text wrapper. Each    *)
(* part has its own specification, in which the variables of the other     *)
(* parts stay as they are; what engines, servers and callers do is the     *)
(* environment's input.                                                    *)
(***************************************************************************)
EXTENDS Integers, Sequences, FiniteSets, TLC

(***************************************************************************)
(* Bounds of the model.                                                    *)
(***************************************************************************)
MaxRetries == 2

(***************************************************************************)
(* Values.                                                                 *)
(***************************************************************************)
\* Option::None
None == [tag |-> "None"]

\* Option::Some(v)
Some(v) == [tag |-> "Some", value |-> v]

Strategies == {"Sequential", "Parallel", "Race"}

\* ASRProvider / EngineType
Providers == {"Qwen", "Doubao", "SenseVoice"}

\* ASREngine::name() of the engine create_engine builds for a provider
EngineName(p) ==
    CASE p = "Qwen" -> "qwen"
      [] p = "Doubao" -> "doubao"
      [] p = "SenseVoice" -> "sensevoice"

\* ASRProvider's Display (config.provider.to_string()): the provider id
ProviderToString(p) ==
    CASE p = "Qwen" -> "qwen"
      [] p = "Doubao" -> "doubao"
      [] p = "SenseVoice" -> "sensevoice"

\* the ASRError variants an engine's transcribe returns
ErrorKinds == {"NetworkError", "Timeout", "AuthFailed", "QuotaExceeded", "InvalidAudio"}

\* transcripts an engine can answer
Texts == {"a", "b"}

\* RetryConfig::default().base_delay_ms
DefaultBaseDelayMs == 500

RECURSIVE Pow2(_)
Pow2(n) == IF n = 0 THEN 1 ELSE 2 * Pow2(n - 1)

\* base_delay_ms * (1 << (attempt - 1)), in milliseconds; for the retry counts
\* modelled here the u64 product stays far below 2^64
RetryDelay(base_delay_ms, k) == base_delay_ms * Pow2(k - 1)

\* Vec<String>::join("; "): the messages with the separator between them
RECURSIVE Join(_, _)
Join(msgs, sep) ==
    IF Len(msgs) = 0 THEN << >>
    ELSE IF Len(msgs) = 1 THEN << msgs[1] >>
    ELSE << msgs[1], sep >> \o Join(Tail(msgs), sep)

\* TranscriptionResult::new(text, engine, used_fallback, duration_ms)
TranscriptionResult(text, engine, used_fallback) ==
    [tag |-> "Ok", text |-> text, engine |-> engine, used_fallback |-> used_fallback]

\* ASRError::AllEnginesFailed { primary_error, fallback_error }
AllEnginesFailed(errors, fallback_error) ==
    [tag |-> "AllEnginesFailed", primary_error |-> Join(errors, "; "),
     fallback_error |-> fallback_error]

\* ASRError::ConfigError returned by create_engine
ConfigError == [tag |-> "ConfigError"]

OkOf(text) == [tag |-> "Ok", text |-> text]

ErrOf(kind) == [tag |-> "Err", error |-> kind]

\* tokio JoinError: the background task panicked
JoinError == [tag |-> "JoinError"]

(***************************************************************************)
(* State of one transcribe call.                                           *)
(***************************************************************************)
VARIABLES
    strategy,          \* which strategy object transcribe is called on
    primary_config,    \* [provider, valid]: valid = create_engine succeeds
    fallback_config,   \* None, or [provider, valid]
    enable_fallback,
    retry_config,      \* [max_retries, base_delay_ms]
    primary_ok_at,     \* environment: the attempt the primary engine answers Ok on
                       \* (max_retries + 1: on none of them)
    pc,                \* position of transcribe
    attempt,           \* the for loop's index
    primary_errors,    \* Vec<String> of the primary's error messages
    primary_calls,     \* primary.transcribe calls started
    primary_output,    \* the text the primary engine answered, or None
    fallback_calls,    \* fallback transcribe calls started
    fallback_output,   \* what the fallback engine (or its task) answered, or None
    fallback_handle,   \* the JoinHandle: NoHandle, Held, Aborted, Awaiting, Awaited, Dropped
    task,              \* the spawned task: NoTask, Spawned, Transcribing, Finished, Panicked, Cancelled
    fallback_result,   \* RaceStrategy's Arc<Mutex<Option<Result<String, String>>>>
    stored_at,         \* where transcribe was when the task's engine answered
    sleeps,            \* the delays slept so far
    result             \* what transcribe returned, or None

(***************************************************************************)
(* State of one transcribe call on one HTTP engine (http/qwen.rs,          *)
(* http/doubao.rs, http/sensevoice.rs).                                    *)
(***************************************************************************)
VARIABLES
    http_provider,     \* which HTTP engine transcribe is called on
    http_retry_config, \* the engine's own retry_config: [max_retries, base_delay_ms]
    http_audio,        \* the AudioData: [empty, wav_ok] (wav_ok: to_wav succeeds)
    http_pc,           \* position of the engine's transcribe
    http_attempt,      \* the engine's for loop index
    last_error,        \* the engine's last_error: None or Some(kind)
    http_requests,     \* provider requests sent by transcribe_once
    http_sleeps,       \* the delays the engine slept
    http_result        \* what the engine's transcribe returned, or None

http_vars == << http_provider, http_retry_config, http_audio, http_pc, http_attempt,
                last_error, http_requests, http_sleeps, http_result >>

\* no HTTP engine call is part of the behaviour
HttpIdle ==
    /\ http_provider = "Qwen"
    /\ http_retry_config = [max_retries |-> 0, base_delay_ms |-> DefaultBaseDelayMs]
    /\ http_audio = [empty |-> TRUE, wav_ok |-> TRUE]
    /\ http_pc = "idle"
    /\ http_attempt = 0
    /\ last_error = None
    /\ http_requests = 0
    /\ http_sleeps = << >>
    /\ http_result = None

(***************************************************************************)
(* State of the retry loop's delay computation, in u64 milliseconds.       *)
(***************************************************************************)
VARIABLES
    delay_policy,      \* RetryConfig: [max_retries, base_delay_ms], base_delay_ms as u64 bits
    overflow_checks,   \* whether the build checks integer overflow (debug profile)
    delay_attempt,     \* the for loop's index
    delay_pc,          \* position in the loop
    delay              \* the delay slept before the current attempt

delay_vars == << delay_policy, overflow_checks, delay_attempt, delay_pc, delay >>

\* no retry loop is part of the behaviour
DelayIdle ==
    /\ delay_policy = [max_retries |-> 0, base_delay_ms |-> {}]
    /\ overflow_checks = FALSE
    /\ delay_attempt = 0
    /\ delay_pc = "idle"
    /\ delay = None

(***************************************************************************)
(* State of one streaming session (realtime/doubao.rs, realtime/qwen.rs):  *)
(* the session object, its command, result and partial-text channels, and  *)
(* the three tasks connect spawns.                                         *)
(***************************************************************************)
VARIABLES
    session_provider,  \* DoubaoRealtimeSession or QwenRealtimeSession
    cmd_queue,         \* the SessionCommands in the mpsc channel
    cmd_rx,            \* the sender task's end of the channel: Open or Dropped
    sequence,          \* the Doubao sender task's frame counter
    written,           \* the frames the sender task wrote to the connection
    recv_task,         \* the receive task: Running or Ended
    accumulated_text,  \* Doubao's accumulated_text, Qwen's final_text
    recent_text,       \* the text of the last Doubao response that had one
    has_result,        \* Qwen's has_result
    completion_seen,   \* the completion-class events the Qwen receive task read:
                       \* No, WithoutTranscript, Yes
    result_tx,         \* the receive task's Option<oneshot::Sender>: Held, Taken, Dropped
    result_channel,    \* the value sent on the oneshot channel, or None
    result_receiver,   \* the session's Option<Receiver>: InSession, InClose, Dropped
    partial_callback,  \* the session's partial_callback field
    forwarder_callback,\* the Option the forwarding task captured
    partial_queue,     \* the texts in the partial-text channel
    delivered,         \* the texts the callback was invoked with
    close_result,      \* what the last close() returned, or None
    chunks,            \* send_chunk calls made
    closes,            \* close calls made
    messages,          \* server messages and connection events received
    outcomes,          \* the results the receive task sent on the result channel
    dropped_with,      \* the connection drop the receive task saw before resolving
    error_frame,       \* the code of an error-type message received before resolving
    discarded,         \* interim texts queued after set_partial_callback and dropped
    late_accepted,     \* send_chunk calls after close() returned that returned Ok
    late_written       \* audio frames of such chunks written to the connection

session_vars == << session_provider, cmd_queue, cmd_rx, sequence, written, recv_task,
                   accumulated_text, recent_text, has_result, completion_seen, result_tx, result_channel,
                   result_receiver, partial_callback, forwarder_callback,
                   partial_queue, delivered, close_result, chunks, closes, messages,
                   outcomes, dropped_with, error_frame, discarded,
                   late_accepted, late_written >>

\* the sequence number of the Full Client Request connect sends
FirstSequence == 1

\* what connect wrote to the connection before it spawned the tasks: the
\* Full Client Request (Doubao) or the session.update event (Qwen)
ConnectWritten(p) ==
    IF p = "Doubao"
    THEN << [type |-> "config", sequence |-> FirstSequence, chunk |-> 0] >>
    ELSE IF p = "Qwen"
    THEN << [type |-> "session.update", sequence |-> 0, chunk |-> 0] >>
    ELSE << >>

\* the session connect returns: three tasks running, the configuration sent,
\* nothing received
SessionCreated ==
    /\ cmd_queue = << >>
    /\ cmd_rx = "Open"
    /\ sequence = FirstSequence
    /\ written = ConnectWritten(session_provider)
    /\ recv_task = "Running"
    /\ accumulated_text = << >>
    /\ recent_text = << >>
    /\ has_result = FALSE
    /\ completion_seen = "No"
    /\ result_tx = "Held"
    /\ result_channel = None
    /\ result_receiver = "InSession"
    /\ partial_callback = None
    /\ forwarder_callback = None
    /\ partial_queue = << >>
    /\ delivered = << >>
    /\ close_result = None
    /\ chunks = 0
    /\ closes = 0
    /\ messages = 0
    /\ outcomes = << >>
    /\ dropped_with = None
    /\ error_frame = None
    /\ discarded = 0
    /\ late_accepted = 0
    /\ late_written = 0

\* no streaming session is part of the behaviour
SessionIdle ==
    /\ session_provider = "NoSession"
    /\ SessionCreated

(***************************************************************************)
(* State of one realtime transcription task (realtime_task.rs): the task   *)
(* object, its chunk and stop channels and the locals of run_with_details. *)
(***************************************************************************)
VARIABLES
    asr_config,        \* the task's ASRProviderConfig
    rt_pc,             \* where run_with_details is
    engine_name,       \* its engine_name
    chunk_source,      \* the chunks still to come on chunk_receiver; the channel
                       \* is closed after them
    stop_signal,       \* the stop channel: Armed, Fired once stop_tx has sent, Dropped
                       \* or was dropped
    chunk_count,       \* its chunk_count
    total_samples,     \* its total_samples
    consecutive_send_failures,
    send_results,      \* what each send_chunk call of the task returned
    rt_result          \* the RealtimeTaskResult returned, or None

rt_vars == << asr_config, rt_pc, engine_name, chunk_source, stop_signal, chunk_count,
              total_samples, consecutive_send_failures, send_results, rt_result >>

\* no realtime task is part of the behaviour
RealtimeTaskIdle ==
    /\ asr_config = None
    /\ rt_pc = "idle"
    /\ engine_name = "unknown"
    /\ chunk_source = << >>
    /\ stop_signal = "Armed"
    /\ chunk_count = 0
    /\ total_samples = 0
    /\ consecutive_send_failures = 0
    /\ send_results = << >>
    /\ rt_result = None

\* One engine and the single operations called on it
VARIABLES
    engine_config,     \* the ASRProviderConfig given to create_engine
    created,           \* what create_engine returned, None before the call
    engine_calls,      \* the operations called on the engine, with their results
    network_requests   \* the requests and connections the engine has made

engine_vars == << engine_config, created, engine_calls, network_requests >>

\* One binary frame of the Doubao protocol
VARIABLES
    frame_args,        \* the arguments of build_message
    frame_bytes,       \* the bytes build_message returned, None before the call
    parsed             \* what parse_response returned for them, None before

frame_vars == << frame_args, frame_bytes, parsed >>

\* One recognised text
VARIABLES
    strip_input,       \* the text before the first strip_trailing_punctuation
    strip_text,        \* the String strip_trailing_punctuation works on
    strip_results      \* the value of the String after each call

strip_vars == << strip_input, strip_text, strip_results >>

\* The callback the realtime task gives to its session
VARIABLES
    user_callback,     \* the task's partial_callback: None or Some(cb)
    emitted,           \* the texts the session called the wrapper with, in order
    spawned,           \* the tasks the wrapper spawned that have not run: indexes into emitted
    user_calls         \* the calls of cb: [index, text], in the order they were made

wrapper_vars == << user_callback, emitted, spawned, user_calls >>

unit_vars == << engine_vars, frame_vars, strip_vars, wrapper_vars >>

\* no engine
EngineIdle ==
    /\ engine_config = None
    /\ created = None
    /\ engine_calls = << >>
    /\ network_requests = 0

\* no frame
FrameIdle ==
    /\ frame_args = None
    /\ frame_bytes = None
    /\ parsed = None

\* no text
StripIdle ==
    /\ strip_input = << >>
    /\ strip_text = << >>
    /\ strip_results = << >>

\* no session calls the wrapper
WrapperIdle ==
    /\ user_callback = None
    /\ emitted = << >>
    /\ spawned = {}
    /\ user_calls = << >>

UnitsIdle == EngineIdle /\ FrameIdle /\ StripIdle /\ WrapperIdle

\* what one strategy call leaves alone
not_fallback_vars == << http_vars, delay_vars, session_vars, rt_vars, unit_vars >>

config_vars == << strategy, primary_config, fallback_config, enable_fallback,
                  retry_config, primary_ok_at >>

primary_vars == << attempt, primary_errors, primary_calls, primary_output, sleeps >>

task_vars == << fallback_calls, fallback_output, fallback_handle, task,
                fallback_result, stored_at >>

fallback_vars == << config_vars, pc, primary_vars, task_vars, result >>

\* what one HTTP engine call leaves alone
not_http_vars == << fallback_vars, delay_vars, session_vars, rt_vars, unit_vars >>

\* what the delay computation leaves alone
not_delay_vars == << fallback_vars, http_vars, session_vars, rt_vars, unit_vars >>

\* what a streaming session's calls and tasks leave alone, the realtime task
\* apart
not_realtime_vars == << fallback_vars, http_vars, delay_vars, unit_vars >>

\* what a streaming session leaves alone
not_session_vars == << fallback_vars, http_vars, delay_vars, rt_vars, unit_vars >>

vars == << fallback_vars, http_vars, delay_vars, session_vars, rt_vars, unit_vars >>

\* the primary engine answers Ok on none of the attempts
NeverOk == retry_config.max_retries + 1

\* (primary, fallback) providers the configurations are drawn from
ProviderPairs ==
    { << "Qwen", "Doubao" >>, << "Doubao", "SenseVoice" >>, << "SenseVoice", "SenseVoice" >> }

\* self.enable_fallback && self.fallback(_config).is_some()
is_fallback_enabled == enable_fallback /\ fallback_config # None

Init ==
    /\ strategy \in Strategies
    /\ \E pair \in ProviderPairs, pv \in BOOLEAN, fv \in BOOLEAN, present \in BOOLEAN :
          \* FallbackStrategy holds engines that were already created
          /\ strategy = "Sequential" => pv /\ fv
          /\ ~present => fv
          /\ primary_config = [provider |-> pair[1], valid |-> pv]
          /\ fallback_config =
                IF present THEN [provider |-> pair[2], valid |-> fv] ELSE None
    /\ enable_fallback \in BOOLEAN
    /\ retry_config \in [max_retries : 0 .. MaxRetries, base_delay_ms : {DefaultBaseDelayMs}]
    /\ primary_ok_at \in 0 .. retry_config.max_retries + 1
    /\ pc = "start"
    /\ attempt = 0
    /\ primary_errors = << >>
    /\ primary_calls = 0
    /\ primary_output = None
    /\ fallback_calls = 0
    /\ fallback_output = None
    /\ fallback_handle = "NoHandle"
    /\ task = "NoTask"
    /\ fallback_result = None
    /\ stored_at = "NotStored"
    /\ sleeps = << >>
    /\ result = None
    /\ HttpIdle
    /\ DelayIdle
    /\ SessionIdle
    /\ RealtimeTaskIdle
    /\ UnitsIdle

\* no orchestrator call is part of the behaviour
FallbackIdle ==
    /\ strategy = "Sequential"
    /\ primary_config = [provider |-> "Qwen", valid |-> TRUE]
    /\ fallback_config = None
    /\ enable_fallback = FALSE
    /\ retry_config = [max_retries |-> 0, base_delay_ms |-> DefaultBaseDelayMs]
    /\ primary_ok_at = 0
    /\ pc = "idle"
    /\ attempt = 0
    /\ primary_errors = << >>
    /\ primary_calls = 0
    /\ primary_output = None
    /\ fallback_calls = 0
    /\ fallback_output = None
    /\ fallback_handle = "NoHandle"
    /\ task = "NoTask"
    /\ fallback_result = None
    /\ stored_at = "NotStored"
    /\ sleeps = << >>
    /\ result = None

(***************************************************************************)
(* Steps shared by the three transcribe loops.                             *)
(***************************************************************************)
\* primary.transcribe(audio) is called
PrimaryCall ==
    /\ pc = "attempt"
    /\ pc' = "in_attempt"
    /\ primary_calls' = primary_calls + 1
    /\ UNCHANGED << not_fallback_vars, config_vars, attempt, primary_errors, primary_output, sleeps,
                    task_vars, result >>

\* Err(e) => primary_errors.push(e.to_string()); the for loop goes on
PrimaryErr(next_pc) ==
    /\ pc = "in_attempt"
    /\ attempt # primary_ok_at
    /\ \E e \in ErrorKinds : primary_errors' = Append(primary_errors, e)
    /\ attempt' = attempt + 1
    /\ pc' = IF attempt + 1 <= retry_config.max_retries THEN next_pc ELSE "after_loop"
    /\ UNCHANGED << not_fallback_vars, config_vars, primary_calls, primary_output, sleeps, task_vars, result >>

\* tokio::time::sleep(delay).await has elapsed
Sleep ==
    /\ pc = "sleep"
    /\ sleeps' = Append(sleeps, RetryDelay(retry_config.base_delay_ms, attempt))
    /\ pc' = "attempt"
    /\ UNCHANGED << not_fallback_vars, config_vars, attempt, primary_errors, primary_calls, primary_output,
                    task_vars, result >>

\* handle.abort(): a task that has not finished is cancelled at its await point
Aborted(t) == IF t \in {"Spawned", "Transcribing"} THEN "Cancelled" ELSE t

(***************************************************************************)
(* FallbackStrategy::transcribe                                            *)
(***************************************************************************)
SeqBegin ==
    /\ strategy = "Sequential"
    /\ pc = "start"
    /\ pc' = "attempt"
    /\ UNCHANGED << not_fallback_vars, config_vars, primary_vars, task_vars, result >>

SeqPrimaryCall == strategy = "Sequential" /\ PrimaryCall

SeqPrimaryOk ==
    /\ strategy = "Sequential"
    /\ pc = "in_attempt"
    /\ attempt = primary_ok_at
    /\ \E text \in Texts :
          /\ primary_output' = OkOf(text)
          /\ result' = TranscriptionResult(text, EngineName(primary_config.provider), FALSE)
    /\ pc' = "done"
    /\ UNCHANGED << not_fallback_vars, config_vars, attempt, primary_errors, primary_calls, sleeps, task_vars >>

SeqPrimaryErr == strategy = "Sequential" /\ PrimaryErr("sleep")

SeqSleep == strategy = "Sequential" /\ Sleep

\* mutant: the fallback is called whenever one is present, enable_fallback unread
SeqFallbackCallIgnoresFlag ==
    /\ strategy = "Sequential"
    /\ pc = "after_loop"
    /\ fallback_config # None
    /\ fallback_calls' = fallback_calls + 1
    /\ pc' = "fallback_call"
    /\ UNCHANGED << not_fallback_vars, config_vars, primary_vars, fallback_output, fallback_handle, task,
                    fallback_result, stored_at, result >>

\* if self.enable_fallback { if let Some(ref fallback) = self.fallback { ... } }
SeqFallbackCall ==
    /\ strategy = "Sequential"
    /\ pc = "after_loop"
    /\ is_fallback_enabled
    /\ fallback_calls' = fallback_calls + 1
    /\ pc' = "fallback_call"
    /\ UNCHANGED << not_fallback_vars, config_vars, primary_vars, fallback_output, fallback_handle, task,
                    fallback_result, stored_at, result >>

SeqFallbackOk ==
    /\ strategy = "Sequential"
    /\ pc = "fallback_call"
    /\ \E text \in Texts :
          /\ fallback_output' = OkOf(text)
          /\ result' = TranscriptionResult(text, EngineName(fallback_config.provider), TRUE)
    /\ pc' = "done"
    /\ UNCHANGED << not_fallback_vars, config_vars, primary_vars, fallback_calls, fallback_handle, task,
                    fallback_result, stored_at >>

\* mutant: the fallback's error is left out of the aggregate
SeqFallbackErrDropped ==
    /\ strategy = "Sequential"
    /\ pc = "fallback_call"
    /\ \E e \in ErrorKinds :
          /\ fallback_output' = ErrOf(e)
          /\ result' = AllEnginesFailed(primary_errors, None)
    /\ pc' = "done"
    /\ UNCHANGED << not_fallback_vars, config_vars, primary_vars, fallback_calls, fallback_handle, task,
                    fallback_result, stored_at >>

SeqFallbackErr ==
    /\ strategy = "Sequential"
    /\ pc = "fallback_call"
    /\ \E e \in ErrorKinds :
          /\ fallback_output' = ErrOf(e)
          /\ result' = AllEnginesFailed(primary_errors, Some(e))
    /\ pc' = "done"
    /\ UNCHANGED << not_fallback_vars, config_vars, primary_vars, fallback_calls, fallback_handle, task,
                    fallback_result, stored_at >>

SeqNoFallback ==
    /\ strategy = "Sequential"
    /\ pc = "after_loop"
    /\ ~is_fallback_enabled
    /\ result' = AllEnginesFailed(primary_errors, None)
    /\ pc' = "done"
    /\ UNCHANGED << not_fallback_vars, config_vars, primary_vars, task_vars >>

(***************************************************************************)
(* The background fallback task of ParallelFallbackStrategy and            *)
(* RaceStrategy (the async block handed to tokio::spawn).                  *)
(***************************************************************************)
\* tokio::spawn(...) when self.enable_fallback && self.fallback_config.is_some()
Spawn ==
    IF is_fallback_enabled
    THEN task' = "Spawned" /\ fallback_handle' = "Held"
    ELSE UNCHANGED << task, fallback_handle >>

\* let engine = create_engine(&fallback_config)?  fails: the task ends with the error
TaskCreateFailed ==
    /\ task = "Spawned"
    /\ ~fallback_config.valid
    /\ task' = "Finished"
    /\ fallback_output' = ErrOf("ConfigError")
    /\ UNCHANGED << not_fallback_vars, config_vars, pc, primary_vars, fallback_calls, fallback_handle,
                    fallback_result, stored_at, result >>

\* engine.transcribe(&audio_clone) is called
TaskCall ==
    /\ task = "Spawned"
    /\ fallback_config.valid
    /\ task' = "Transcribing"
    /\ fallback_calls' = fallback_calls + 1
    /\ UNCHANGED << not_fallback_vars, config_vars, pc, primary_vars, fallback_output, fallback_handle,
                    fallback_result, stored_at, result >>

\* where transcribe is: up to the first checkpoint, in the first retry delay, or later
Stage ==
    IF attempt = 0 \/ (attempt = 1 /\ pc = "checkpoint") THEN "BeforeFirstDelay"
    ELSE IF attempt = 1 /\ pc = "sleep" THEN "InFirstDelay"
    ELSE "Later"

\* the engine answered: RaceStrategy's task stores the answer in the holder
TaskStore(answer) ==
    /\ task = "Transcribing"
    /\ task' = "Finished"
    /\ fallback_output' = answer
    /\ fallback_result' = IF strategy = "Race" THEN answer ELSE fallback_result
    /\ stored_at' = Stage
    /\ UNCHANGED << not_fallback_vars, config_vars, pc, primary_vars, fallback_calls, fallback_handle, result >>

TaskOk == \E text \in Texts : TaskStore(OkOf(text))

TaskErr == \E e \in ErrorKinds : TaskStore(ErrOf(e))

\* the task panicked: its JoinHandle yields a JoinError
TaskPanic ==
    /\ task = "Transcribing"
    /\ task' = "Panicked"
    /\ fallback_output' = JoinError
    /\ UNCHANGED << not_fallback_vars, config_vars, pc, primary_vars, fallback_calls, fallback_handle,
                    fallback_result, stored_at, result >>

(***************************************************************************)
(* Steps shared by ParallelFallbackStrategy and RaceStrategy.              *)
(***************************************************************************)
\* spawn, then create_engine(&self.primary_config)? succeeds
Begin ==
    /\ pc = "start"
    /\ Spawn
    /\ primary_config.valid
    /\ pc' = "attempt"
    /\ UNCHANGED << not_fallback_vars, config_vars, primary_vars, fallback_calls, fallback_output,
                    fallback_result, stored_at, result >>

\* spawn, then create_engine(&self.primary_config)? returns the error: the
\* JoinHandle is dropped, which detaches the task
CreateFailed ==
    /\ pc = "start"
    /\ ~primary_config.valid
    /\ IF is_fallback_enabled
       THEN task' = "Spawned" /\ fallback_handle' = "Dropped"
       ELSE UNCHANGED << task, fallback_handle >>
    /\ result' = ConfigError
    /\ pc' = "done"
    /\ UNCHANGED << not_fallback_vars, config_vars, primary_vars, fallback_calls, fallback_output,
                    fallback_result, stored_at >>

\* if let Some(handle) = fallback_handle { handle.abort(); }
AbortHandle ==
    IF fallback_handle = "Held"
    THEN fallback_handle' = "Aborted" /\ task' = Aborted(task)
    ELSE UNCHANGED << fallback_handle, task >>

\* Ok(text) of the primary: abort the task, return the primary's result
PrimaryOk ==
    /\ pc = "in_attempt"
    /\ attempt = primary_ok_at
    /\ AbortHandle
    /\ \E text \in Texts :
          /\ primary_output' = OkOf(text)
          /\ result' = TranscriptionResult(text, EngineName(primary_config.provider), FALSE)
    /\ pc' = "done"
    /\ UNCHANGED << not_fallback_vars, config_vars, attempt, primary_errors, primary_calls, sleeps,
                    fallback_calls, fallback_output, fallback_result, stored_at >>

\* mutant: the primary's result is returned and the task is left running
PrimaryOkNoAbort ==
    /\ pc = "in_attempt"
    /\ attempt = primary_ok_at
    /\ \E text \in Texts :
          /\ primary_output' = OkOf(text)
          /\ result' = TranscriptionResult(text, EngineName(primary_config.provider), FALSE)
    /\ pc' = "done"
    /\ UNCHANGED << not_fallback_vars, config_vars, attempt, primary_errors, primary_calls, sleeps, task_vars >>

\* self.fallback_config.as_ref().map(|c| c.provider.to_string())
\*     .unwrap_or_else(|| "fallback".to_string())
fallback_name ==
    IF fallback_config # None THEN ProviderToString(fallback_config.provider) ELSE "fallback"

\* if let Some(handle) = fallback_handle { match handle.await { ... } }
Await ==
    /\ pc = "after_loop"
    /\ fallback_handle = "Held"
    /\ fallback_handle' = "Awaiting"
    /\ pc' = "await"
    /\ UNCHANGED << not_fallback_vars, config_vars, primary_vars, fallback_calls, fallback_output, task,
                    fallback_result, stored_at, result >>

\* mutant: a new fallback call is started instead of awaiting the spawned one
AwaitStartsNewCall ==
    /\ pc = "after_loop"
    /\ fallback_handle = "Held"
    /\ fallback_handle' = "Awaiting"
    /\ fallback_calls' = fallback_calls + 1
    /\ pc' = "await"
    /\ UNCHANGED << not_fallback_vars, config_vars, primary_vars, fallback_output, task, fallback_result,
                    stored_at, result >>

\* mutant: the fallback's text is returned under the primary's name
JoinOkMistagged ==
    /\ pc = "await"
    /\ task = "Finished"
    /\ fallback_output.tag = "Ok"
    /\ fallback_handle' = "Awaited"
    /\ result' = TranscriptionResult(fallback_output.text,
                                     EngineName(primary_config.provider), TRUE)
    /\ pc' = "done"
    /\ UNCHANGED << not_fallback_vars, config_vars, primary_vars, fallback_calls, fallback_output, task,
                    fallback_result, stored_at >>

\* Ok(Ok(text)) => the fallback's result
JoinOk ==
    /\ pc = "await"
    /\ task = "Finished"
    /\ fallback_output.tag = "Ok"
    /\ fallback_handle' = "Awaited"
    /\ result' = TranscriptionResult(fallback_output.text, fallback_name, TRUE)
    /\ pc' = "done"
    /\ UNCHANGED << not_fallback_vars, config_vars, primary_vars, fallback_calls, fallback_output, task,
                    fallback_result, stored_at >>

\* Ok(Err(fallback_error)) => AllEnginesFailed
JoinErr ==
    /\ pc = "await"
    /\ task = "Finished"
    /\ fallback_output.tag = "Err"
    /\ fallback_handle' = "Awaited"
    /\ result' = AllEnginesFailed(primary_errors, Some(fallback_output.error))
    /\ pc' = "done"
    /\ UNCHANGED << not_fallback_vars, config_vars, primary_vars, fallback_calls, fallback_output, task,
                    fallback_result, stored_at >>

\* Err(join_error) => AllEnginesFailed
JoinPanicked ==
    /\ pc = "await"
    /\ task = "Panicked"
    /\ fallback_handle' = "Awaited"
    /\ result' = AllEnginesFailed(primary_errors, Some("JoinError"))
    /\ pc' = "done"
    /\ UNCHANGED << not_fallback_vars, config_vars, primary_vars, fallback_calls, fallback_output, task,
                    fallback_result, stored_at >>

\* no handle: Err(AllEnginesFailed { fallback_error: None })
NoFallback ==
    /\ pc = "after_loop"
    /\ fallback_handle = "NoHandle"
    /\ result' = AllEnginesFailed(primary_errors, None)
    /\ pc' = "done"
    /\ UNCHANGED << not_fallback_vars, config_vars, primary_vars, task_vars >>

(***************************************************************************)
(* ParallelFallbackStrategy::transcribe                                    *)
(***************************************************************************)
ParBegin == strategy = "Parallel" /\ Begin

ParCreateFailed == strategy = "Parallel" /\ CreateFailed

ParPrimaryCall == strategy = "Parallel" /\ PrimaryCall

ParPrimaryOkNoAbort == strategy = "Parallel" /\ PrimaryOkNoAbort

ParPrimaryOk == strategy = "Parallel" /\ PrimaryOk

ParPrimaryErr == strategy = "Parallel" /\ PrimaryErr("sleep")

ParSleep == strategy = "Parallel" /\ Sleep

ParAwaitStartsNewCall == strategy = "Parallel" /\ AwaitStartsNewCall

ParAwait == strategy = "Parallel" /\ Await

ParJoinOk == strategy = "Parallel" /\ JoinOk

ParJoinErr == strategy = "Parallel" /\ JoinErr

ParJoinPanicked == strategy = "Parallel" /\ JoinPanicked

ParNoFallback == strategy = "Parallel" /\ NoFallback

(***************************************************************************)
(* RaceStrategy::transcribe                                                *)
(***************************************************************************)
RaceBegin == strategy = "Race" /\ Begin

RaceCreateFailed == strategy = "Race" /\ CreateFailed

RacePrimaryCall == strategy = "Race" /\ PrimaryCall

RacePrimaryOkNoAbort == strategy = "Race" /\ PrimaryOkNoAbort

RacePrimaryOk == strategy = "Race" /\ PrimaryOk

\* mutant: the retry delay starts without the checkpoint
RacePrimaryErrNoCheckpoint == strategy = "Race" /\ PrimaryErr("sleep")

RacePrimaryErr == strategy = "Race" /\ PrimaryErr("checkpoint")

\* if attempt > 0: the holder has Some(Ok(text)): abort the task and return it
RacePreempt ==
    /\ strategy = "Race"
    /\ pc = "checkpoint"
    /\ fallback_result.tag = "Ok"
    /\ AbortHandle
    /\ result' = TranscriptionResult(fallback_result.text, fallback_name, TRUE)
    /\ pc' = "done"
    /\ UNCHANGED << not_fallback_vars, config_vars, primary_vars, fallback_calls, fallback_output,
                    fallback_result, stored_at >>

\* mutant: the checkpoint does not look at the holder
RaceCheckpointBlind ==
    /\ strategy = "Race"
    /\ pc = "checkpoint"
    /\ pc' = "sleep"
    /\ UNCHANGED << not_fallback_vars, config_vars, primary_vars, task_vars, result >>

\* the checkpoint gives up on a stored failure of the fallback
RaceCheckpointGivesUp ==
    /\ strategy = "Race"
    /\ pc = "checkpoint"
    /\ fallback_result.tag # "Ok"
    /\ IF fallback_result.tag = "Err"
       THEN /\ result' = AllEnginesFailed(primary_errors, Some(fallback_result.error))
            /\ pc' = "done"
       ELSE /\ pc' = "sleep"
            /\ UNCHANGED result
    /\ UNCHANGED << not_fallback_vars, config_vars, primary_vars, task_vars >>

\* the checkpoint takes the value out of the holder (Option::take)
RaceCheckpointTakes ==
    /\ strategy = "Race"
    /\ pc = "checkpoint"
    /\ fallback_result.tag # "Ok"
    /\ fallback_result' = None
    /\ pc' = "sleep"
    /\ UNCHANGED << not_fallback_vars, config_vars, primary_vars, fallback_calls, fallback_output,
                    fallback_handle, task, stored_at, result >>

\* if attempt > 0: the holder is None or Some(Err(_)): go on to the delay
RaceCheckpoint ==
    /\ strategy = "Race"
    /\ pc = "checkpoint"
    /\ fallback_result.tag # "Ok"
    /\ pc' = "sleep"
    /\ UNCHANGED << not_fallback_vars, config_vars, primary_vars, task_vars, result >>

\* the retry delay, with the holder looked at when it has elapsed
RaceSleepObserves ==
    /\ strategy = "Race"
    /\ pc = "sleep"
    /\ IF fallback_result.tag = "Ok"
       THEN /\ AbortHandle
            /\ result' = TranscriptionResult(fallback_result.text, fallback_name, TRUE)
            /\ pc' = "done"
            /\ UNCHANGED sleeps
       ELSE /\ sleeps' = Append(sleeps, RetryDelay(retry_config.base_delay_ms, attempt))
            /\ pc' = "attempt"
            /\ UNCHANGED << fallback_handle, task, result >>
    /\ UNCHANGED << not_fallback_vars, config_vars, attempt, primary_errors, primary_calls,
                    primary_output, fallback_calls, fallback_output, fallback_result,
                    stored_at >>

RaceSleep == strategy = "Race" /\ Sleep

RaceAwait == strategy = "Race" /\ Await

RaceJoinOkMistagged == strategy = "Race" /\ JoinOkMistagged

RaceJoinOk == strategy = "Race" /\ JoinOk

RaceJoinErr == strategy = "Race" /\ JoinErr

RaceJoinPanicked == strategy = "Race" /\ JoinPanicked

RaceNoFallback == strategy = "Race" /\ NoFallback

(***************************************************************************)
(* The specification.                                                      *)
(***************************************************************************)
Next ==
    \/ SeqBegin \/ SeqPrimaryCall \/ SeqPrimaryOk \/ SeqPrimaryErr \/ SeqSleep
    \/ SeqFallbackCall \/ SeqFallbackOk \/ SeqFallbackErr \/ SeqNoFallback
    \/ ParBegin \/ ParCreateFailed \/ ParPrimaryCall \/ ParPrimaryOk \/ ParPrimaryErr
    \/ ParSleep \/ ParAwait \/ ParJoinOk \/ ParJoinErr \/ ParJoinPanicked \/ ParNoFallback
    \/ RaceBegin \/ RaceCreateFailed \/ RacePrimaryCall \/ RacePrimaryOk \/ RacePrimaryErr
    \/ RacePreempt \/ RaceCheckpoint \/ RaceSleep \/ RaceAwait \/ RaceJoinOk \/ RaceJoinErr
    \/ RaceJoinPanicked \/ RaceNoFallback
    \/ TaskCreateFailed \/ TaskCall \/ TaskOk \/ TaskErr \/ TaskPanic

Spec == Init /\ [][Next]_vars

(***************************************************************************)
(* The HTTP engines: QwenHttpEngine, DoubaoHttpEngine, SenseVoiceHttpEngine.*)
(* One behaviour is one call of transcribe on one engine; the provider's   *)
(* replies are the environment's inputs.                                   *)
(***************************************************************************)
\* the characters of a transcript: letters and marks of the punctuation list
Punctuation == {".", ","}

\* transcripts in a provider's response body, as character sequences
BodyTexts == { << "a" >>, << "a", "." >>, << ",", "b", ".", "," >> }

\* the loop of strip_trailing_punctuation left after its first pass
strip_trailing_punctuationOnce(text) ==
    IF Len(text) > 0 /\ text[Len(text)] \in Punctuation
    THEN SubSeq(text, 1, Len(text) - 1)
    ELSE text

\* while let Some(c) = text.chars().last() { if punctuation.contains(&c) { text.pop() } else { break } }
RECURSIVE strip_trailing_punctuation(_)
strip_trailing_punctuation(text) ==
    IF Len(text) > 0 /\ text[Len(text)] \in Punctuation
    THEN strip_trailing_punctuation(SubSeq(text, 1, Len(text) - 1))
    ELSE text

\* what a provider request can end in, other than a success with a transcript:
\* the send timing out or failing, an error status, a body without a transcript
FailReplies == {"send_timeout", "send_error", "unauthorized", "forbidden",
                "not_found", "too_many_requests", "unavailable", "bad_body"}

\* the ASRError transcribe_once returns for a reply that is not a success
OnceError(p, reply) ==
    CASE reply = "send_timeout" -> "Timeout"
      [] reply = "send_error" -> "NetworkError"
      [] reply = "bad_body" -> "InternalError"
      [] reply = "unauthorized" -> "AuthFailed"
      [] reply = "forbidden" -> IF p = "SenseVoice" THEN "NetworkError" ELSE "AuthFailed"
      [] reply = "too_many_requests" -> "QuotaExceeded"
      [] reply = "not_found" -> IF p = "SenseVoice" THEN "ConfigError" ELSE "NetworkError"
      [] OTHER -> "NetworkError"

HttpInit ==
    /\ FallbackIdle
    /\ DelayIdle
    /\ SessionIdle
    /\ RealtimeTaskIdle
    /\ UnitsIdle
    /\ http_provider \in Providers
    /\ http_retry_config \in
          [max_retries : 0 .. MaxRetries, base_delay_ms : {DefaultBaseDelayMs}]
    /\ http_audio \in [empty : BOOLEAN, wav_ok : BOOLEAN]
    /\ http_pc = "start"
    /\ http_attempt = 0
    /\ last_error = None
    /\ http_requests = 0
    /\ http_sleeps = << >>
    /\ http_result = None

\* mutant: the emptiness of the audio is not looked at
HttpTranscribeNoEmptyCheck ==
    /\ http_pc = "start"
    /\ http_pc' = "attempt"
    /\ UNCHANGED << not_http_vars, http_provider, http_retry_config, http_audio,
                    http_attempt, last_error, http_requests, http_sleeps, http_result >>

\* transcribe is entered: if audio.is_empty() { return Err(InvalidAudio) }
HttpTranscribe ==
    /\ http_pc = "start"
    /\ IF http_audio.empty
       THEN /\ http_result' = ErrOf("InvalidAudio")
            /\ http_pc' = "done"
       ELSE /\ http_pc' = "attempt"
            /\ UNCHANGED http_result
    /\ UNCHANGED << not_http_vars, http_provider, http_retry_config, http_audio,
                    http_attempt, last_error, http_requests, http_sleeps >>

\* the head of the for loop: if attempt > 0 { sleep(base_delay_ms * (1 << (attempt - 1))) }
HttpAttempt ==
    /\ http_pc = "attempt"
    /\ http_sleeps' =
          IF http_attempt > 0
          THEN Append(http_sleeps, RetryDelay(http_retry_config.base_delay_ms, http_attempt))
          ELSE http_sleeps
    /\ http_pc' = "once"
    /\ UNCHANGED << not_http_vars, http_provider, http_retry_config, http_audio,
                    http_attempt, last_error, http_requests, http_result >>

\* Err(e) => last_error = Some(e); after the last attempt transcribe returns
\* Err(last_error.unwrap_or_else(InternalError))
HttpOnceErr(kind) ==
    /\ last_error' = Some(kind)
    /\ http_attempt' = http_attempt + 1
    /\ IF http_attempt + 1 <= http_retry_config.max_retries
       THEN /\ http_pc' = "attempt"
            /\ UNCHANGED http_result
       ELSE /\ http_pc' = "done"
            /\ http_result' = ErrOf(kind)

\* transcribe_once: audio.to_wav() fails, no request is built
HttpWavErr ==
    /\ http_pc = "once"
    /\ ~http_audio.wav_ok
    /\ HttpOnceErr("InvalidAudio")
    /\ UNCHANGED << not_http_vars, http_provider, http_retry_config, http_audio,
                    http_requests, http_sleeps >>

\* transcribe_once: the request is sent to the provider
HttpRequest ==
    /\ http_pc = "once"
    /\ http_audio.wav_ok
    /\ http_requests' = http_requests + 1
    /\ http_pc' = "sent"
    /\ UNCHANGED << not_http_vars, http_provider, http_retry_config, http_audio,
                    http_attempt, last_error, http_sleeps, http_result >>

\* transcribe_once answers Ok(text), the transcript with its trailing
\* punctuation stripped; transcribe returns it
HttpReplyOk ==
    /\ http_pc = "sent"
    /\ \E body \in BodyTexts : http_result' = OkOf(strip_trailing_punctuation(body))
    /\ http_pc' = "done"
    /\ UNCHANGED << not_http_vars, http_provider, http_retry_config, http_audio,
                    http_attempt, last_error, http_requests, http_sleeps >>

\* transcribe_once answers Err: the send failed, the status is an error, or
\* the body has no transcript
HttpReplyErr ==
    /\ http_pc = "sent"
    /\ \E reply \in FailReplies : HttpOnceErr(OnceError(http_provider, reply))
    /\ UNCHANGED << not_http_vars, http_provider, http_retry_config, http_audio,
                    http_requests, http_sleeps >>

HttpNext ==
    \/ HttpTranscribe \/ HttpAttempt \/ HttpWavErr \/ HttpRequest
    \/ HttpReplyOk \/ HttpReplyErr

HttpSpec == HttpInit /\ [][HttpNext]_vars

(***************************************************************************)
(* The delay of the retry loops, base_delay_ms * (1 << (attempt - 1)), in  *)
(* the width the code computes it in.  A u64 is the set of the positions   *)
(* of its one bits.  One behaviour is one run of a retry loop whose        *)
(* attempts fail.                                                          *)
(***************************************************************************)
\* bits of a u64 (RetryConfig::base_delay_ms: u64)
U64Width == 64

\* largest max_retries of the policies drawn
MaxDelayRetries == 65

\* the u64 of a small number
BitsOf(n) == { i \in 0 .. 30 : (n \div Pow2(i)) % 2 = 1 }

\* base_delay_ms of the policies drawn: 0, the default, 2^62 and 2^63
DelayBases == { BitsOf(0), BitsOf(DefaultBaseDelayMs), {U64Width - 2}, {U64Width - 1} }

\* 1 << n overflows: the shift amount is not below the width
ShlOverflows(n) == n >= U64Width

\* 1 << n on u64 without overflow checks: the shift amount is masked
Shl(n) == { n % U64Width }

\* a * (1 << s) overflows: a one bit is shifted out
MulOverflows(a, sh) == \E b \in a, s \in sh : b + s >= U64Width

\* a * (1 << s) on u64 without overflow checks: the product modulo 2^64
WrappingMul(a, sh) == { b + s : b \in { x \in a : \A s \in sh : x + s < U64Width }, s \in sh }

\* tokio::time::sleep(Duration::from_millis(ms)) was awaited
Slept(ms) == [tag |-> "Slept", ms |-> ms]

\* the attempt was made without a sleep
NoSleep == [tag |-> "NoSleep"]

DelayInit ==
    /\ FallbackIdle
    /\ HttpIdle
    /\ SessionIdle
    /\ RealtimeTaskIdle
    /\ UnitsIdle
    /\ delay_policy \in [max_retries : 0 .. MaxDelayRetries, base_delay_ms : DelayBases]
    /\ overflow_checks \in BOOLEAN
    /\ delay_attempt = 0
    /\ delay_pc = "loop"
    /\ delay = None

\* attempt 0: if attempt > 0 is false, no sleep
DelayFirstAttempt ==
    /\ delay_pc = "loop"
    /\ delay_attempt = 0
    /\ delay' = NoSleep
    /\ delay_pc' = "attempt"
    /\ UNCHANGED << not_delay_vars, delay_policy, overflow_checks, delay_attempt >>

\* attempt > 0: the delay is computed and slept
DelaySleep ==
    /\ delay_pc = "loop"
    /\ delay_attempt > 0
    /\ overflow_checks =>
          /\ ~ShlOverflows(delay_attempt - 1)
          /\ ~MulOverflows(delay_policy.base_delay_ms, Shl(delay_attempt - 1))
    /\ delay' = Slept(WrappingMul(delay_policy.base_delay_ms, Shl(delay_attempt - 1)))
    /\ delay_pc' = "attempt"
    /\ UNCHANGED << not_delay_vars, delay_policy, overflow_checks, delay_attempt >>

\* attempt > 0, overflow checks on: the shift or the product panics
DelayPanic ==
    /\ delay_pc = "loop"
    /\ delay_attempt > 0
    /\ overflow_checks
    /\ \/ ShlOverflows(delay_attempt - 1)
       \/ MulOverflows(delay_policy.base_delay_ms, Shl(delay_attempt - 1))
    /\ delay_pc' = "panicked"
    /\ UNCHANGED << not_delay_vars, delay_policy, overflow_checks, delay_attempt, delay >>

\* the attempt fails: the for loop goes on, or ends after max_retries
DelayAttemptErr ==
    /\ delay_pc = "attempt"
    /\ delay_attempt' = delay_attempt + 1
    /\ delay_pc' = IF delay_attempt + 1 <= delay_policy.max_retries THEN "loop" ELSE "done"
    /\ UNCHANGED << not_delay_vars, delay_policy, overflow_checks, delay >>

DelayNext == DelayFirstAttempt \/ DelaySleep \/ DelayPanic \/ DelayAttemptErr

DelaySpec == DelayInit /\ [][DelayNext]_vars

\* every attempt returns and every sleep elapses: a step that can be taken is taken
DelayFairSpec == DelaySpec /\ WF_vars(DelayNext)

(***************************************************************************)
(* The streaming sessions: DoubaoRealtimeSession and QwenRealtimeSession.  *)
(* One behaviour is the life of one session after connect: the caller's    *)
(* send_chunk, set_partial_callback and close calls, the sender, receive   *)
(* and forwarding tasks' steps; the server's messages and the connection's *)
(* events are the environment's inputs.                                    *)
(***************************************************************************)
\* send_chunk calls of one behaviour
MaxChunks == 2

\* close calls of one behaviour
MaxCloses == 2

\* server messages and connection events of one behaviour
MaxMessages == 3

SessionProviders == {"Doubao", "Qwen"}

\* texts a server message carries, as character sequences
ServerTexts == { << >>, << "a" >>, << "b", "." >> }

\* parse_response: message_type == 0xf
ErrorMessageType == 15

\* error codes of Doubao's error messages
ErrorCodes == { 45000001 }

\* a Doubao binary message: its header's message type and flags, then the
\* error code or the payload's result.text; truncated: too short to parse
DoubaoFrame(message_type, flags, code, text, truncated) ==
    [message_type |-> message_type, flags |-> flags, code |-> code, text |-> text,
     truncated |-> truncated]

DoubaoFrames ==
    { DoubaoFrame(9, flags, 0, text, FALSE) : flags \in {1, 3}, text \in ServerTexts }
    \cup { DoubaoFrame(ErrorMessageType, 0, code, << >>, FALSE) : code \in ErrorCodes }
    \cup { DoubaoFrame(9, 1, 0, << >>, TRUE) }

\* Err(ASRError::WebSocketError("服务器返回错误: code={}"))
ServerError(code) == [tag |-> "Err", error |-> "WebSocketError", code |-> code]

\* parse_response(data): Ok((text, is_last)) or Err
parse_response(frame) ==
    IF frame.truncated THEN ErrOf("InternalError")
    ELSE IF frame.message_type = ErrorMessageType THEN ServerError(frame.code)
    ELSE LET is_last == (frame.flags \div 2) % 2 # 0
         IN  IF is_last \/ frame.text # << >>
             THEN [tag |-> "Ok", text |-> frame.text, is_last |-> is_last]
             ELSE ErrOf("InternalError")

\* a Qwen server event: its type and its transcript or delta field, if present
QwenEvent(type, has_text, text) == [type |-> type, has_text |-> has_text, text |-> text]

QwenEvents ==
    { QwenEvent("conversation.item.input_audio_transcription.completed", TRUE, t) :
          t \in ServerTexts }
    \cup { QwenEvent("response.audio_transcript.delta", TRUE, t) :
          t \in ServerTexts \ { << >> } }
    \cup { QwenEvent("conversation.item.input_audio_transcription.completed", FALSE,
                     << >>) }
    \cup { QwenEvent("response.audio_transcript.done", h, << "a" >>) : h \in BOOLEAN }
    \cup { QwenEvent(t, FALSE, << >>) : t \in {"session.updated", "response.done", "error"} }

Completed == "conversation.item.input_audio_transcription.completed"

\* the event types that report a finished transcription
CompletionEvents == { Completed, "response.audio_transcript.done", "response.done" }

IsNotPunctuation(c) == c \notin Punctuation

\* text.chars().filter(|c| !punctuation.contains(c)).collect()
strip_punctuation(text) == SelectSeq(text, IsNotPunctuation)

SessionInit ==
    /\ FallbackIdle
    /\ HttpIdle
    /\ DelayIdle
    /\ session_provider \in SessionProviders
    /\ SessionCreated
    /\ RealtimeTaskIdle
    /\ UnitsIdle

\* the caller is between two calls on the session
CallerFree == result_receiver # "InClose"

\* close() has returned at least once
Closed == close_result # None

\* mpsc::channel::<SessionCommand>(100)
ChannelCapacity == 100

\* cmd_sender.send(cmd).await returns: there is room in the channel, or the
\* sender task dropped cmd_rx
HasCapacity == cmd_rx = "Open" => Len(cmd_queue) < ChannelCapacity

\* send_chunk with the command put at the front of the channel
send_chunkAtFront ==
    /\ HasCapacity
    /\ chunks' = chunks + 1
    /\ IF cmd_rx = "Open"
       THEN /\ cmd_queue' = << [cmd |-> "SendAudio", chunk |-> chunks + 1,
                                late |-> close_result # None] >> \o cmd_queue
            /\ late_accepted' =
                  IF close_result # None THEN late_accepted + 1 ELSE late_accepted
       ELSE UNCHANGED << cmd_queue, late_accepted >>
    /\ UNCHANGED << session_provider, cmd_rx, sequence, written, recv_task,
                    accumulated_text, recent_text, has_result, completion_seen, result_tx,
                    result_channel, result_receiver, partial_callback,
                    forwarder_callback, partial_queue, delivered, close_result, closes,
                    messages, outcomes, dropped_with, error_frame, discarded,
                    late_written >>

\* send_chunk on a session that opens a new channel after a refused chunk
send_chunkReconnects ==
    /\ HasCapacity
    /\ chunks' = chunks + 1
    /\ IF cmd_rx = "Open"
       THEN /\ cmd_queue' = Append(cmd_queue,
                   [cmd |-> "SendAudio", chunk |-> chunks + 1, late |-> Closed])
            /\ late_accepted' = IF Closed THEN late_accepted + 1 ELSE late_accepted
            /\ UNCHANGED cmd_rx
       ELSE /\ cmd_rx' = "Open"
            /\ UNCHANGED << cmd_queue, late_accepted >>
    /\ UNCHANGED << session_provider, sequence, written,
                    recv_task, accumulated_text, recent_text, has_result, completion_seen, result_tx, result_channel,
                    result_receiver, partial_callback, forwarder_callback,
                    partial_queue, delivered, close_result, closes, messages,
                    outcomes, dropped_with, error_frame, discarded, late_written >>

\* send_chunk: cmd_sender.send(SendAudio(chunk)).await; Err if the channel is
\* closed
send_chunk ==
    /\ HasCapacity
    /\ chunks' = chunks + 1
    /\ IF cmd_rx = "Open"
       THEN /\ cmd_queue' = Append(cmd_queue,
                   [cmd |-> "SendAudio", chunk |-> chunks + 1, late |-> Closed])
            /\ late_accepted' = IF Closed THEN late_accepted + 1 ELSE late_accepted
       ELSE UNCHANGED << cmd_queue, late_accepted >>
    /\ UNCHANGED << session_provider, cmd_rx, sequence, written,
                    recv_task, accumulated_text, recent_text, has_result, completion_seen, result_tx, result_channel,
                    result_receiver, partial_callback, forwarder_callback,
                    partial_queue, delivered, close_result, closes, messages,
                    outcomes, dropped_with, error_frame, discarded, late_written >>

\* set_partial_callback: self.partial_callback = Some(..)
set_partial_callback ==
    /\ partial_callback = None
    /\ partial_callback' = Some("callback")
    /\ UNCHANGED << session_provider, cmd_queue, cmd_rx, sequence,
                    written, recv_task, accumulated_text, recent_text, has_result, completion_seen, result_tx,
                    result_channel, result_receiver, forwarder_callback, partial_queue,
                    delivered, close_result, chunks, closes, messages, outcomes,
                    dropped_with, error_frame, discarded, late_accepted, late_written >>

\* the command close() sends first: Finish (Doubao) or Commit (Qwen)
CloseCommand == IF session_provider = "Doubao" THEN "Finish" ELSE "Commit"

\* cmd_sender.send(cmd) with its result ignored
Enqueued(cmd) ==
    IF cmd_rx = "Open"
    THEN Append(cmd_queue, [cmd |-> cmd, chunk |-> 0, late |-> FALSE])
    ELSE cmd_queue

\* close() up to its await: the command is sent and result_receiver is
\* taken; on a session closed before it returns Err(InternalError)
CloseBegin ==
    /\ HasCapacity
    /\ closes' = closes + 1
    /\ cmd_queue' = Enqueued(CloseCommand)
    /\ IF result_receiver = "InSession"
       THEN /\ result_receiver' = "InClose"
            /\ UNCHANGED close_result
       ELSE /\ close_result' = Some(ErrOf("InternalError"))
            /\ UNCHANGED result_receiver
    /\ UNCHANGED << session_provider, cmd_rx, sequence, written,
                    recv_task, accumulated_text, recent_text, has_result, completion_seen, result_tx, result_channel,
                    partial_callback, forwarder_callback, partial_queue, delivered,
                    chunks, messages, outcomes, dropped_with, error_frame,
                    discarded, late_accepted, late_written >>

\* close(): the result arrives on the channel; Qwen then sends Close
CloseResult ==
    /\ result_receiver = "InClose"
    /\ result_channel # None
    /\ session_provider = "Qwen" => HasCapacity
    /\ result_receiver' = "Dropped"
    /\ close_result' = Some(result_channel.value)
    /\ cmd_queue' = IF session_provider = "Qwen" THEN Enqueued("Close") ELSE cmd_queue
    /\ UNCHANGED << session_provider, cmd_rx, sequence, written,
                    recv_task, accumulated_text, recent_text, has_result, completion_seen, result_tx, result_channel,
                    partial_callback, forwarder_callback, partial_queue, delivered,
                    chunks, closes, messages, outcomes, dropped_with, error_frame,
                    discarded, late_accepted, late_written >>

\* close(): the receive task ended without sending: Err(InternalError), by `?`
CloseChannelClosed ==
    /\ result_receiver = "InClose"
    /\ result_channel = None
    /\ recv_task = "Ended"
    /\ result_receiver' = "Dropped"
    /\ close_result' = Some(ErrOf("InternalError"))
    /\ UNCHANGED << session_provider, cmd_queue, cmd_rx, sequence,
                    written, recv_task, accumulated_text, recent_text, has_result, completion_seen, result_tx,
                    result_channel, partial_callback, forwarder_callback,
                    partial_queue, delivered, chunks, closes, messages, outcomes,
                    dropped_with, error_frame, discarded, late_accepted, late_written >>

\* close(): TRANSCRIPTION_TIMEOUT_SECS pass without a result: Err(Timeout), by `?`
CloseTimeout ==
    /\ result_receiver = "InClose"
    /\ result_channel = None
    /\ recv_task = "Running"
    /\ result_receiver' = "Dropped"
    /\ close_result' = Some(ErrOf("Timeout"))
    /\ UNCHANGED << session_provider, cmd_queue, cmd_rx, sequence,
                    written, recv_task, accumulated_text, recent_text, has_result, completion_seen, result_tx,
                    result_channel, partial_callback, forwarder_callback,
                    partial_queue, delivered, chunks, closes, messages, outcomes,
                    dropped_with, error_frame, discarded, late_accepted, late_written >>

(***************************************************************************)
(* A caller that makes any calls on the session, one at a time.            *)
(***************************************************************************)
CallerSendChunk ==
    /\ CallerFree
    /\ chunks < MaxChunks
    /\ send_chunk
    /\ UNCHANGED not_session_vars

CallerSetPartialCallback ==
    /\ CallerFree
    /\ set_partial_callback
    /\ UNCHANGED not_session_vars

CallerCloseBegin ==
    /\ CallerFree
    /\ closes < MaxCloses
    /\ CloseBegin
    /\ UNCHANGED not_session_vars

CallerCloseResult == CloseResult /\ UNCHANGED not_session_vars

CallerCloseChannelClosed == CloseChannelClosed /\ UNCHANGED not_session_vars

CallerCloseTimeout == CloseTimeout /\ UNCHANGED not_session_vars

(***************************************************************************)
(* The sender task: one command of the channel per step.                   *)
(***************************************************************************)
\* the loop is left: cmd_rx is dropped with the commands still queued
SenderEnds ==
    /\ cmd_rx' = "Dropped"
    /\ cmd_queue' = << >>

\* Doubao, SendAudio with `sequence += 1` left out
DoubaoSendAudioSameSequence ==
    /\ session_provider = "Doubao"
    /\ cmd_rx = "Open"
    /\ cmd_queue # << >>
    /\ Head(cmd_queue).cmd = "SendAudio"
    /\ written' = Append(written, [type |-> "audio", sequence |-> sequence,
                                    chunk |-> Head(cmd_queue).chunk])
    /\ late_written' = IF Head(cmd_queue).late THEN late_written + 1 ELSE late_written
    /\ cmd_queue' = Tail(cmd_queue)
    /\ UNCHANGED << not_session_vars, session_provider, cmd_rx, sequence, recv_task,
                    accumulated_text, recent_text, has_result, completion_seen, result_tx, result_channel,
                    result_receiver, partial_callback, forwarder_callback,
                    partial_queue, delivered, close_result, chunks, closes, messages,
                    outcomes, dropped_with, error_frame, discarded, late_accepted >>

\* Doubao, SendAudio: sequence += 1, the audio frame is written
DoubaoSendAudio ==
    /\ session_provider = "Doubao"
    /\ cmd_rx = "Open"
    /\ cmd_queue # << >>
    /\ Head(cmd_queue).cmd = "SendAudio"
    /\ sequence' = sequence + 1
    /\ written' = Append(written, [type |-> "audio", sequence |-> sequence + 1,
                                    chunk |-> Head(cmd_queue).chunk])
    /\ late_written' = IF Head(cmd_queue).late THEN late_written + 1 ELSE late_written
    /\ cmd_queue' = Tail(cmd_queue)
    /\ UNCHANGED << not_session_vars, session_provider, cmd_rx, recv_task,
                    accumulated_text, recent_text, has_result, completion_seen, result_tx, result_channel,
                    result_receiver, partial_callback, forwarder_callback,
                    partial_queue, delivered, close_result, chunks, closes, messages,
                    outcomes, dropped_with, error_frame, discarded, late_accepted >>

\* Doubao, SendAudio: the write fails, the loop breaks
DoubaoSendAudioFailed ==
    /\ session_provider = "Doubao"
    /\ cmd_rx = "Open"
    /\ cmd_queue # << >>
    /\ Head(cmd_queue).cmd = "SendAudio"
    /\ sequence' = sequence + 1
    /\ SenderEnds
    /\ UNCHANGED << not_session_vars, session_provider, written, recv_task,
                    accumulated_text, recent_text, has_result, completion_seen, result_tx, result_channel,
                    result_receiver, partial_callback, forwarder_callback,
                    partial_queue, delivered, close_result, chunks, closes, messages,
                    outcomes, dropped_with, error_frame, discarded, late_accepted,
                    late_written >>

\* Doubao, Finish: sequence += 1, the last frame carries -sequence; whether
\* or not the write succeeds the loop breaks
DoubaoFinish ==
    /\ session_provider = "Doubao"
    /\ cmd_rx = "Open"
    /\ cmd_queue # << >>
    /\ Head(cmd_queue).cmd = "Finish"
    /\ sequence' = sequence + 1
    /\ \E ok \in BOOLEAN :
          written' = IF ok
                     THEN Append(written, [type |-> "finish", sequence |-> -(sequence + 1),
                                           chunk |-> 0])
                     ELSE written
    /\ SenderEnds
    /\ UNCHANGED << not_session_vars, session_provider, recv_task, accumulated_text,
                    recent_text, has_result, completion_seen, result_tx, result_channel, result_receiver,
                    partial_callback, forwarder_callback, partial_queue, delivered,
                    close_result, chunks, closes, messages, outcomes, dropped_with,
                    error_frame, discarded, late_accepted, late_written >>

\* Qwen, SendAudio: the input_audio_buffer.append event is written
QwenSendAudio ==
    /\ session_provider = "Qwen"
    /\ cmd_rx = "Open"
    /\ cmd_queue # << >>
    /\ Head(cmd_queue).cmd = "SendAudio"
    /\ written' = Append(written, [type |-> "audio", sequence |-> 0,
                                    chunk |-> Head(cmd_queue).chunk])
    /\ late_written' = IF Head(cmd_queue).late THEN late_written + 1 ELSE late_written
    /\ cmd_queue' = Tail(cmd_queue)
    /\ UNCHANGED << not_session_vars, session_provider, cmd_rx, sequence, recv_task,
                    accumulated_text, recent_text, has_result, completion_seen, result_tx, result_channel,
                    result_receiver, partial_callback, forwarder_callback,
                    partial_queue, delivered, close_result, chunks, closes, messages,
                    outcomes, dropped_with, error_frame, discarded, late_accepted >>

\* Qwen, SendAudio: the write fails, the loop breaks
QwenSendAudioFailed ==
    /\ session_provider = "Qwen"
    /\ cmd_rx = "Open"
    /\ cmd_queue # << >>
    /\ Head(cmd_queue).cmd = "SendAudio"
    /\ SenderEnds
    /\ UNCHANGED << not_session_vars, session_provider, sequence, written, recv_task,
                    accumulated_text, recent_text, has_result, completion_seen, result_tx, result_channel,
                    result_receiver, partial_callback, forwarder_callback,
                    partial_queue, delivered, close_result, chunks, closes, messages,
                    outcomes, dropped_with, error_frame, discarded, late_accepted,
                    late_written >>

\* Qwen, Commit: input_audio_buffer.commit is written; a failed write is
\* logged and the loop goes on
QwenCommit ==
    /\ session_provider = "Qwen"
    /\ cmd_rx = "Open"
    /\ cmd_queue # << >>
    /\ Head(cmd_queue).cmd = "Commit"
    /\ \E ok \in BOOLEAN :
          written' = IF ok
                     THEN Append(written, [type |-> "commit", sequence |-> 0, chunk |-> 0])
                     ELSE written
    /\ cmd_queue' = Tail(cmd_queue)
    /\ UNCHANGED << not_session_vars, session_provider, cmd_rx, sequence, recv_task,
                    accumulated_text, recent_text, has_result, completion_seen, result_tx, result_channel,
                    result_receiver, partial_callback, forwarder_callback,
                    partial_queue, delivered, close_result, chunks, closes, messages,
                    outcomes, dropped_with, error_frame, discarded, late_accepted,
                    late_written >>

\* Qwen, Close: the sink is closed and the loop breaks
QwenClose ==
    /\ session_provider = "Qwen"
    /\ cmd_rx = "Open"
    /\ cmd_queue # << >>
    /\ Head(cmd_queue).cmd = "Close"
    /\ written' = Append(written, [type |-> "close", sequence |-> 0, chunk |-> 0])
    /\ SenderEnds
    /\ UNCHANGED << not_session_vars, session_provider, sequence, recv_task,
                    accumulated_text, recent_text, has_result, completion_seen, result_tx, result_channel,
                    result_receiver, partial_callback, forwarder_callback,
                    partial_queue, delivered, close_result, chunks, closes, messages,
                    outcomes, dropped_with, error_frame, discarded, late_accepted,
                    late_written >>

(***************************************************************************)
(* The receive task: one message of the connection per step.               *)
(***************************************************************************)
\* if let Some(tx) = result_tx.take() { let _ = tx.send(r); }
Resolve(r) ==
    /\ outcomes' = IF result_tx = "Held" THEN Append(outcomes, r) ELSE outcomes
    /\ result_channel' =
          IF result_tx = "Held" /\ result_receiver # "Dropped"
          THEN Some(r)
          ELSE result_channel
    /\ result_tx' = "Taken"

\* the loop goes on with result_tx as it is
Unresolved == UNCHANGED << outcomes, result_channel, result_tx >>

\* partial_tx_clone.send(text)
Queued(text) == Append(partial_queue, [text |-> text, after_set |-> partial_callback # None])

\* the connection drop the receive loop reads, with the text accumulated so far
Drop(kind) == Some([kind |-> kind, text |-> accumulated_text])

\* a message is read by a running receive task
Receives ==
    /\ recv_task = "Running"
    /\ messages < MaxMessages
    /\ messages' = messages + 1

\* accumulated_text grows by every text received
AccumulatedAppending(accumulated, response_text) == accumulated \o response_text

\* if !text.is_empty() { accumulated_text = text.clone(); }
Accumulated(accumulated, response_text) ==
    IF response_text # << >> THEN response_text ELSE accumulated

\* Doubao, Ok(Message::Binary(data)): parse_response; a text is accumulated
\* and forwarded, a final response resolves the session; an Err is logged
DoubaoRecvBinary ==
    /\ session_provider = "Doubao"
    /\ Receives
    /\ \E f \in DoubaoFrames :
          LET r == parse_response(f)
          IN  /\ recent_text' = IF f.text # << >> THEN f.text ELSE recent_text
              /\ IF r.tag = "Ok"
                 THEN /\ accumulated_text' = Accumulated(accumulated_text, r.text)
                      /\ partial_queue' =
                            IF r.text # << >> THEN Queued(r.text) ELSE partial_queue
                      /\ IF r.is_last
                         THEN /\ Resolve(OkOf(accumulated_text'))
                              /\ recv_task' = "Ended"
                         ELSE /\ Unresolved
                              /\ UNCHANGED recv_task
                      /\ UNCHANGED error_frame
                 ELSE /\ error_frame' =
                            IF ~f.truncated /\ f.message_type = ErrorMessageType
                            THEN Some(f.code)
                            ELSE error_frame
                      /\ Unresolved
                      /\ UNCHANGED << accumulated_text, partial_queue, recv_task >>
    /\ UNCHANGED << not_session_vars, session_provider, cmd_queue, cmd_rx, sequence,
                    written, has_result, completion_seen, result_receiver, partial_callback,
                    forwarder_callback, delivered, close_result, chunks, closes,
                    dropped_with, discarded, late_accepted, late_written >>

\* Doubao, Ok(Message::Close(frame)): the accumulated text if there is one,
\* else Err(WebSocketError)
DoubaoRecvClose ==
    /\ session_provider = "Doubao"
    /\ Receives
    /\ dropped_with' = Drop("Close")
    /\ Resolve(IF accumulated_text # << >>
               THEN OkOf(accumulated_text)
               ELSE ErrOf("WebSocketError"))
    /\ recv_task' = "Ended"
    /\ UNCHANGED << not_session_vars, session_provider, cmd_queue, cmd_rx, sequence,
                    written, accumulated_text, recent_text, has_result, completion_seen, result_receiver,
                    partial_callback, forwarder_callback, partial_queue, delivered,
                    close_result, chunks, closes, error_frame, discarded,
                    late_accepted, late_written >>

\* Doubao, Ok(other): logged
DoubaoRecvOther ==
    /\ session_provider = "Doubao"
    /\ Receives
    /\ UNCHANGED << not_session_vars, session_provider, cmd_queue, cmd_rx, sequence,
                    written, recv_task, accumulated_text, recent_text, has_result, completion_seen, result_tx,
                    result_channel, result_receiver, partial_callback,
                    forwarder_callback, partial_queue, delivered, close_result, chunks,
                    closes, outcomes, dropped_with, error_frame, discarded,
                    late_accepted, late_written >>

\* Doubao, Err(e): Err(WebSocketError)
DoubaoRecvErr ==
    /\ session_provider = "Doubao"
    /\ Receives
    /\ dropped_with' = Drop("Err")
    /\ Resolve(ErrOf("WebSocketError"))
    /\ recv_task' = "Ended"
    /\ UNCHANGED << not_session_vars, session_provider, cmd_queue, cmd_rx, sequence,
                    written, accumulated_text, recent_text, has_result, completion_seen, result_receiver,
                    partial_callback, forwarder_callback, partial_queue, delivered,
                    close_result, chunks, closes, error_frame, discarded,
                    late_accepted, late_written >>

\* Doubao, read.next() is None: after the loop result_tx.is_some(), the
\* accumulated text if there is one, else Err(WebSocketError)
DoubaoRecvEnd ==
    /\ session_provider = "Doubao"
    /\ Receives
    /\ dropped_with' = Drop("End")
    /\ Resolve(IF accumulated_text # << >>
               THEN OkOf(accumulated_text)
               ELSE ErrOf("WebSocketError"))
    /\ recv_task' = "Ended"
    /\ UNCHANGED << not_session_vars, session_provider, cmd_queue, cmd_rx, sequence,
                    written, accumulated_text, recent_text, has_result, completion_seen, result_receiver,
                    partial_callback, forwarder_callback, partial_queue, delivered,
                    close_result, chunks, closes, error_frame, discarded,
                    late_accepted, late_written >>

\* the end of a loop iteration with has_result left out of the condition
QwenCheckTextOnly ==
    IF accumulated_text' # << >>
    THEN /\ Resolve(OkOf(strip_punctuation(accumulated_text')))
         /\ recv_task' = "Ended"
    ELSE /\ Unresolved
         /\ UNCHANGED recv_task

\* Qwen, the end of a loop iteration: if has_result && !final_text.is_empty()
\* the stripped text is sent and the loop breaks
QwenCheck ==
    IF has_result' /\ accumulated_text' # << >>
    THEN /\ Resolve(OkOf(strip_punctuation(accumulated_text')))
         /\ recv_task' = "Ended"
    ELSE /\ Unresolved
         /\ UNCHANGED recv_task

\* Qwen, after the loop: if !has_result, Err(InternalError) is sent
QwenAfterLoop ==
    /\ IF ~has_result
       THEN Resolve(ErrOf("InternalError"))
       ELSE /\ result_tx' = "Dropped"
            /\ UNCHANGED << outcomes, result_channel >>
    /\ recv_task' = "Ended"

\* Qwen, Ok(Message::Text(text)) holding a JSON event
QwenRecvText ==
    /\ session_provider = "Qwen"
    /\ Receives
    /\ \E e \in QwenEvents :
          IF e.type = "error"
          THEN /\ Resolve(ErrOf("WebSocketError"))
               /\ recv_task' = "Ended"
               /\ UNCHANGED << accumulated_text, recent_text, has_result, completion_seen, partial_queue >>
          ELSE /\ accumulated_text' =
                     CASE e.type = "conversation.item.input_audio_transcription.completed"
                              /\ e.has_text -> e.text
                       [] e.type = "response.audio_transcript.delta" /\ e.has_text ->
                              accumulated_text \o e.text
                       [] e.type = "response.audio_transcript.done" /\ e.has_text -> e.text
                       [] OTHER -> accumulated_text
               /\ has_result' =
                     \/ has_result
                     \/ e.type = "conversation.item.input_audio_transcription.completed"
                           /\ e.has_text
                     \/ e.type \in {"response.audio_transcript.done", "response.done"}
               /\ completion_seen' =
                     IF e.type \notin CompletionEvents THEN completion_seen
                     ELSE IF e.has_text \/ e.type # Completed THEN "Yes"
                     ELSE IF completion_seen = "No" THEN "WithoutTranscript"
                     ELSE completion_seen
               /\ partial_queue' =
                     IF e.type = "response.audio_transcript.delta" /\ e.has_text
                     THEN Queued(accumulated_text')
                     ELSE partial_queue
               /\ UNCHANGED recent_text
               /\ QwenCheck
    /\ UNCHANGED << not_session_vars, session_provider, cmd_queue, cmd_rx, sequence,
                    written, result_receiver, partial_callback, forwarder_callback,
                    delivered, close_result, chunks, closes, dropped_with, error_frame,
                    discarded, late_accepted, late_written >>

\* Qwen, a text message that is no JSON, or a message of another kind
QwenRecvOther ==
    /\ session_provider = "Qwen"
    /\ Receives
    /\ UNCHANGED << accumulated_text, recent_text, has_result, completion_seen >>
    /\ QwenCheck
    /\ UNCHANGED << not_session_vars, session_provider, cmd_queue, cmd_rx, sequence,
                    written, result_receiver, partial_callback, forwarder_callback,
                    partial_queue, delivered, close_result, chunks, closes,
                    dropped_with, error_frame, discarded, late_accepted, late_written >>

\* Qwen, Ok(Message::Close(_)): break
QwenRecvClose ==
    /\ session_provider = "Qwen"
    /\ Receives
    /\ dropped_with' = Drop("Close")
    /\ QwenAfterLoop
    /\ UNCHANGED << not_session_vars, session_provider, cmd_queue, cmd_rx, sequence,
                    written, accumulated_text, recent_text, has_result, completion_seen, result_receiver,
                    partial_callback, forwarder_callback, partial_queue, delivered,
                    close_result, chunks, closes, error_frame, discarded,
                    late_accepted, late_written >>

\* Qwen, Err(e): Err(WebSocketError) is sent and the task returns
QwenRecvErr ==
    /\ session_provider = "Qwen"
    /\ Receives
    /\ dropped_with' = Drop("Err")
    /\ Resolve(ErrOf("WebSocketError"))
    /\ recv_task' = "Ended"
    /\ UNCHANGED << not_session_vars, session_provider, cmd_queue, cmd_rx, sequence,
                    written, accumulated_text, recent_text, has_result, completion_seen, result_receiver,
                    partial_callback, forwarder_callback, partial_queue, delivered,
                    close_result, chunks, closes, error_frame, discarded,
                    late_accepted, late_written >>

\* Qwen, read.next() is None: the loop ends
QwenRecvEnd ==
    /\ session_provider = "Qwen"
    /\ Receives
    /\ dropped_with' = Drop("End")
    /\ QwenAfterLoop
    /\ UNCHANGED << not_session_vars, session_provider, cmd_queue, cmd_rx, sequence,
                    written, accumulated_text, recent_text, has_result, completion_seen, result_receiver,
                    partial_callback, forwarder_callback, partial_queue, delivered,
                    close_result, chunks, closes, error_frame, discarded,
                    late_accepted, late_written >>

(***************************************************************************)
(* The forwarding task: while let Some(text) = partial_rx.recv().await.    *)
(***************************************************************************)
\* the callback the task captured is invoked, if it captured one
Forward ==
    /\ session_provider \in SessionProviders
    /\ partial_queue # << >>
    /\ partial_queue' = Tail(partial_queue)
    /\ IF forwarder_callback # None
       THEN /\ delivered' = Append(delivered, Head(partial_queue).text)
            /\ UNCHANGED discarded
       ELSE /\ discarded' =
                  IF Head(partial_queue).after_set THEN discarded + 1 ELSE discarded
            /\ UNCHANGED delivered
    /\ UNCHANGED << not_session_vars, session_provider, cmd_queue, cmd_rx, sequence,
                    written, recv_task, accumulated_text, recent_text, has_result, completion_seen, result_tx,
                    result_channel, result_receiver, partial_callback,
                    forwarder_callback, close_result, chunks, closes, messages,
                    outcomes, dropped_with, error_frame, late_accepted, late_written >>

SessionNext ==
    \/ CallerSendChunk \/ CallerSetPartialCallback
    \/ CallerCloseBegin \/ CallerCloseResult \/ CallerCloseChannelClosed
    \/ CallerCloseTimeout
    \/ DoubaoSendAudio \/ DoubaoSendAudioFailed \/ DoubaoFinish
    \/ QwenSendAudio \/ QwenSendAudioFailed \/ QwenCommit \/ QwenClose
    \/ DoubaoRecvBinary \/ DoubaoRecvClose \/ DoubaoRecvOther \/ DoubaoRecvErr
    \/ DoubaoRecvEnd
    \/ QwenRecvText \/ QwenRecvOther \/ QwenRecvClose \/ QwenRecvErr \/ QwenRecvEnd
    \/ Forward

SessionSpec == SessionInit /\ [][SessionNext]_vars

(***************************************************************************)
(* The realtime transcription task: RealtimeTranscriptionTask's            *)
(* run_with_details, the caller of one streaming session. One behaviour is *)
(* one run of the task with the session's three tasks; the chunks of the   *)
(* recorder, the stop signal, the server's messages and the connection's   *)
(* events are the environment's inputs.                                    *)
(***************************************************************************)
\* chunks the recorder delivers in one behaviour
MaxSourceChunks == 6

\* const MAX_CONSECUTIVE_FAILURES: u32 = 5
MAX_CONSECUTIVE_FAILURES == 5

\* ASRMode
ASRModes == {"Http", "Realtime"}

\* an ASRProviderConfig: valid is what config.validate() answers,
\* credentials whether the provider's keys are present
ASRProviderConfigs ==
    [provider : Providers, mode : ASRModes, valid : BOOLEAN, credentials : BOOLEAN]

\* the engine create_engine builds for a provider and a mode
EngineFor(provider, mode) ==
    CASE provider = "Qwen" /\ mode = "Http" -> "QwenHttpEngine"
      [] provider = "Qwen" /\ mode = "Realtime" -> "QwenRealtimeEngine"
      [] provider = "Doubao" /\ mode = "Http" -> "DoubaoHttpEngine"
      [] provider = "Doubao" /\ mode = "Realtime" -> "DoubaoRealtimeEngine"
      [] provider = "SenseVoice" -> "SenseVoiceHttpEngine"

\* create_engine(config): Ok(engine) or Err(ConfigError)
create_engine(config) ==
    IF ~config.valid \/ ~config.credentials
    THEN ConfigError
    ELSE [tag |-> "Ok", engine |-> EngineFor(config.provider, config.mode),
          provider |-> config.provider]

\* ASREngine::supported_modes
supported_modes(engine) ==
    IF engine \in {"QwenRealtimeEngine", "DoubaoRealtimeEngine"}
    THEN {"Realtime"}
    ELSE {"Http"}

\* Err(ASRError::UnsupportedOperation(..))
UnsupportedOperation == ErrOf("UnsupportedOperation")

\* a recording of n chunks: the sample counts of its chunks
ChunkSource(n) == [k \in 1 .. n |-> 1 + (k % 2)]

\* RealtimeTaskResult::Failed { error, engine_name, chunks_sent, samples_sent }
Failed(error, name, chunks_sent, samples_sent) ==
    [tag |-> "Failed", error |-> error, engine_name |-> name,
     chunks_sent |-> chunks_sent, samples_sent |-> samples_sent]

\* RealtimeTaskResult::Success(TranscriptionResult::new(text, engine_name, false, ..))
Success(text, name) == [tag |-> "Success", result |-> TranscriptionResult(text, name, FALSE)]

TaskInit ==
    /\ FallbackIdle
    /\ HttpIdle
    /\ DelayIdle
    /\ SessionIdle
    /\ UnitsIdle
    /\ asr_config \in ASRProviderConfigs
    /\ rt_pc = "start"
    /\ engine_name = "unknown"
    /\ chunk_source \in { ChunkSource(n) : n \in {0, MaxSourceChunks} }
    /\ stop_signal = "Armed"
    /\ chunk_count = 0
    /\ total_samples = 0
    /\ consecutive_send_failures = 0
    /\ send_results = << >>
    /\ rt_result = None

\* return RealtimeTaskResult::Failed { error, engine_name, chunks_sent, samples_sent }
ReturnFailed(error, name) ==
    /\ rt_result' = Some(Failed(error, name, chunk_count, total_samples))
    /\ rt_pc' = "done"

\* create_engine fails: Failed with engine_name "unknown"
RtCreateEngineFailed ==
    /\ rt_pc = "start"
    /\ create_engine(asr_config).tag # "Ok"
    /\ ReturnFailed(create_engine(asr_config), engine_name)
    /\ UNCHANGED << not_realtime_vars, session_vars, asr_config, engine_name,
                    chunk_source, stop_signal, chunk_count, total_samples,
                    consecutive_send_failures, send_results >>

\* create_engine succeeds: engine_name = engine.name(), then
\* engine.create_realtime_session() is awaited
RtCreateEngine ==
    /\ rt_pc = "start"
    /\ create_engine(asr_config).tag = "Ok"
    /\ engine_name' = EngineName(create_engine(asr_config).provider)
    /\ rt_pc' = "create_session"
    /\ UNCHANGED << not_realtime_vars, session_vars, asr_config, chunk_source,
                    stop_signal, chunk_count, total_samples,
                    consecutive_send_failures, send_results, rt_result >>

\* create_realtime_session fails: an HTTP engine answers
\* Err(UnsupportedOperation), a realtime engine's connect Err(WebSocketError)
RtCreateSessionFailed ==
    /\ rt_pc = "create_session"
    /\ ReturnFailed(IF "Realtime" \in supported_modes(create_engine(asr_config).engine)
                    THEN ErrOf("WebSocketError")
                    ELSE UnsupportedOperation,
                    engine_name)
    /\ UNCHANGED << not_realtime_vars, session_vars, asr_config, engine_name,
                    chunk_source, stop_signal, chunk_count, total_samples,
                    consecutive_send_failures, send_results >>

\* create_realtime_session succeeds: connect has sent the configuration and
\* spawned the session's tasks
RtCreateSession ==
    /\ rt_pc = "create_session"
    /\ "Realtime" \in supported_modes(create_engine(asr_config).engine)
    /\ session_provider' = asr_config.provider
    /\ written' = ConnectWritten(asr_config.provider)
    /\ rt_pc' = "set_partial_callback"
    /\ UNCHANGED << not_realtime_vars, cmd_queue, cmd_rx, sequence, recv_task,
                    accumulated_text, recent_text, has_result, completion_seen, result_tx,
                    result_channel, result_receiver, partial_callback,
                    forwarder_callback, partial_queue, delivered, close_result,
                    chunks, closes, messages, outcomes, dropped_with, error_frame,
                    discarded, late_accepted, late_written, asr_config, engine_name,
                    chunk_source, stop_signal, chunk_count, total_samples,
                    consecutive_send_failures, send_results, rt_result >>

\* session.set_partial_callback(..), then the loop is entered
RtSetPartialCallback ==
    /\ rt_pc = "set_partial_callback"
    /\ set_partial_callback
    /\ rt_pc' = "loop"
    /\ UNCHANGED << not_realtime_vars, asr_config, engine_name, chunk_source,
                    stop_signal, chunk_count, total_samples,
                    consecutive_send_failures, send_results, rt_result >>

\* the holder of stop_tx drops it without sending: rx.await is Err, and
\* rx.await.ok() is ready with None
RtStopDropped ==
    /\ rt_pc \notin {"idle", "done"}
    /\ stop_signal = "Armed"
    /\ stop_signal' = "Dropped"
    /\ UNCHANGED << not_realtime_vars, session_vars, asr_config, rt_pc, engine_name,
                    chunk_source, chunk_count, total_samples,
                    consecutive_send_failures, send_results, rt_result >>

\* the holder of stop_tx sends: rx.await.ok() is ready with Some(())
RtStopFires ==
    /\ rt_pc \notin {"idle", "done"}
    /\ stop_signal = "Armed"
    /\ stop_signal' = "Fired"
    /\ UNCHANGED << not_realtime_vars, session_vars, asr_config, rt_pc, engine_name,
                    chunk_source, chunk_count, total_samples,
                    consecutive_send_failures, send_results, rt_result >>

\* the stop branch, taken only on Some(()): a dropped trigger is not seen
RtStopOnlyFired ==
    /\ rt_pc = "loop"
    /\ stop_signal = "Fired"
    /\ rt_pc' = "close"
    /\ UNCHANGED << not_realtime_vars, session_vars, asr_config, engine_name,
                    chunk_source, stop_signal, chunk_count, total_samples,
                    consecutive_send_failures, send_results, rt_result >>

\* the stop branch, taken also while session.send_chunk is awaited
RtStopMidSend ==
    /\ rt_pc \in {"loop", "send_chunk"}
    /\ stop_signal = "Fired"
    /\ rt_pc' = "close"
    /\ UNCHANGED << not_realtime_vars, session_vars, asr_config, engine_name,
                    chunk_source, stop_signal, chunk_count, total_samples,
                    consecutive_send_failures, send_results, rt_result >>

\* select!: rx.await.ok() is ready and its branch is taken: break
RtStop ==
    /\ rt_pc = "loop"
    /\ stop_signal \in {"Fired", "Dropped"}
    /\ rt_pc' = "close"
    /\ UNCHANGED << not_realtime_vars, session_vars, asr_config, engine_name,
                    chunk_source, stop_signal, chunk_count, total_samples,
                    consecutive_send_failures, send_results, rt_result >>

\* select!: chunk_receiver.recv() is Some(audio_chunk): the counters are
\* raised, then session.send_chunk is awaited
RtRecvChunk ==
    /\ rt_pc = "loop"
    /\ chunk_source # << >>
    /\ chunk_count' = chunk_count + 1
    /\ total_samples' = total_samples + Head(chunk_source)
    /\ chunk_source' = Tail(chunk_source)
    /\ rt_pc' = "send_chunk"
    /\ UNCHANGED << not_realtime_vars, session_vars, asr_config, engine_name,
                    stop_signal, consecutive_send_failures, send_results, rt_result >>

\* select!: chunk_receiver.recv() is None: break
RtRecvNone ==
    /\ rt_pc = "loop"
    /\ chunk_source = << >>
    /\ rt_pc' = "close"
    /\ UNCHANGED << not_realtime_vars, session_vars, asr_config, engine_name,
                    chunk_source, stop_signal, chunk_count, total_samples,
                    consecutive_send_failures, send_results, rt_result >>

\* match session.send_chunk(..).await without `consecutive_send_failures = 0`
\* in its Ok arm
SendChunkReturnedNoReset(ok) ==
    /\ send_results' = Append(send_results, ok)
    /\ IF ok
       THEN /\ rt_pc' = "loop"
            /\ UNCHANGED << consecutive_send_failures, rt_result >>
       ELSE /\ consecutive_send_failures' = consecutive_send_failures + 1
            /\ IF consecutive_send_failures' >= MAX_CONSECUTIVE_FAILURES
               THEN ReturnFailed(ErrOf("WebSocketError"), engine_name)
               ELSE /\ rt_pc' = "loop"
                    /\ UNCHANGED rt_result

\* match session.send_chunk(..).await: Ok resets consecutive_send_failures;
\* Err raises it, and at MAX_CONSECUTIVE_FAILURES the task returns Failed
SendChunkReturned(ok) ==
    /\ send_results' = Append(send_results, ok)
    /\ IF ok
       THEN /\ consecutive_send_failures' = 0
            /\ rt_pc' = "loop"
            /\ UNCHANGED rt_result
       ELSE /\ consecutive_send_failures' = consecutive_send_failures + 1
            /\ IF consecutive_send_failures' >= MAX_CONSECUTIVE_FAILURES
               THEN ReturnFailed(ErrOf("WebSocketError"), engine_name)
               ELSE /\ rt_pc' = "loop"
                    /\ UNCHANGED rt_result

\* session.send_chunk returns, with `>` for `>=` in the test of
\* consecutive_send_failures
RtSendChunkOneMore ==
    /\ rt_pc = "send_chunk"
    /\ send_chunk
    /\ send_results' = Append(send_results, cmd_rx = "Open")
    /\ IF cmd_rx = "Open"
       THEN /\ consecutive_send_failures' = 0
            /\ rt_pc' = "loop"
            /\ UNCHANGED rt_result
       ELSE /\ consecutive_send_failures' = consecutive_send_failures + 1
            /\ IF consecutive_send_failures' > MAX_CONSECUTIVE_FAILURES
               THEN ReturnFailed(ErrOf("WebSocketError"), engine_name)
               ELSE /\ rt_pc' = "loop"
                    /\ UNCHANGED rt_result
    /\ UNCHANGED << not_realtime_vars, asr_config, engine_name, chunk_source,
                    stop_signal, chunk_count, total_samples >>

\* session.send_chunk returns: Ok resets consecutive_send_failures, Err
\* raises it and at MAX_CONSECUTIVE_FAILURES the task returns Failed
RtSendChunk ==
    /\ rt_pc = "send_chunk"
    /\ send_chunk
    /\ SendChunkReturned(cmd_rx = "Open")
    /\ UNCHANGED << not_realtime_vars, asr_config, engine_name, chunk_source,
                    stop_signal, chunk_count, total_samples >>

\* what run_with_details returns after session.close() returned r
Returned(r) ==
    /\ rt_result' = Some(IF r.tag = "Ok"
                         THEN Success(r.text, engine_name)
                         ELSE Failed(r, engine_name, chunk_count, total_samples))
    /\ rt_pc' = "done"

\* session.close() is called and runs up to its await
RtCloseBegin ==
    /\ rt_pc = "close"
    /\ CloseBegin
    /\ IF result_receiver' = "InClose"
       THEN /\ rt_pc' = "close_wait"
            /\ UNCHANGED rt_result
       ELSE Returned(close_result'.value)
    /\ UNCHANGED << not_realtime_vars, asr_config, engine_name, chunk_source,
                    stop_signal, chunk_count, total_samples,
                    consecutive_send_failures, send_results >>

\* session.close() returns the result of the receive task
RtCloseResult ==
    /\ rt_pc = "close_wait"
    /\ CloseResult
    /\ Returned(close_result'.value)
    /\ UNCHANGED << not_realtime_vars, asr_config, engine_name, chunk_source,
                    stop_signal, chunk_count, total_samples,
                    consecutive_send_failures, send_results >>

\* session.close() returns Err(InternalError): the result channel is closed
RtCloseChannelClosed ==
    /\ rt_pc = "close_wait"
    /\ CloseChannelClosed
    /\ Returned(close_result'.value)
    /\ UNCHANGED << not_realtime_vars, asr_config, engine_name, chunk_source,
                    stop_signal, chunk_count, total_samples,
                    consecutive_send_failures, send_results >>

\* session.close() returns Err(Timeout)
RtCloseTimeout ==
    /\ rt_pc = "close_wait"
    /\ CloseTimeout
    /\ Returned(close_result'.value)
    /\ UNCHANGED << not_realtime_vars, asr_config, engine_name, chunk_source,
                    stop_signal, chunk_count, total_samples,
                    consecutive_send_failures, send_results >>

\* the steps of the session's sender task
SenderNext ==
    \/ DoubaoSendAudio \/ DoubaoSendAudioFailed \/ DoubaoFinish
    \/ QwenSendAudio \/ QwenSendAudioFailed \/ QwenCommit \/ QwenClose

\* the steps of the session's receive task
ReceiveNext ==
    \/ DoubaoRecvBinary \/ DoubaoRecvClose \/ DoubaoRecvOther \/ DoubaoRecvErr
    \/ DoubaoRecvEnd
    \/ QwenRecvText \/ QwenRecvOther \/ QwenRecvClose \/ QwenRecvErr \/ QwenRecvEnd

\* The forwarding task's steps are left out: they change partial_queue,
\* delivered and discarded only, which no step of the realtime task or of
\* the other two tasks reads.
TaskNext ==
    \/ RtCreateEngineFailed \/ RtCreateEngine \/ RtCreateSessionFailed
    \/ RtCreateSession \/ RtSetPartialCallback
    \/ RtStopFires \/ RtStopDropped \/ RtStop \/ RtRecvChunk \/ RtRecvNone \/ RtSendChunk
    \/ RtCloseBegin \/ RtCloseResult \/ RtCloseChannelClosed \/ RtCloseTimeout
    \/ SenderNext
    \/ ReceiveNext

TaskSpec == TaskInit /\ [][TaskNext]_vars

(***************************************************************************)
(* The realtime task on a connection that stalls: the server sends nothing *)
(* and the sender task's writes may not complete, so the sender task has   *)
(* no fairness; the recording fills the command channel. The task itself   *)
(* and the timer of close() always go on.                                  *)
(***************************************************************************)
StalledInit ==
    /\ FallbackIdle
    /\ HttpIdle
    /\ DelayIdle
    /\ SessionIdle
    /\ UnitsIdle
    /\ asr_config \in { c \in ASRProviderConfigs :
                           c.mode = "Realtime" /\ c.provider \in SessionProviders
                               /\ c.valid /\ c.credentials }
    /\ rt_pc = "start"
    /\ engine_name = "unknown"
    /\ chunk_source = ChunkSource(ChannelCapacity)
    /\ stop_signal = "Armed"
    /\ chunk_count = 0
    /\ total_samples = 0
    /\ consecutive_send_failures = 0
    /\ send_results = << >>
    /\ rt_result = None

\* the steps of run_with_details on a silent connection
StalledTaskNext ==
    \/ RtCreateEngine \/ RtCreateSessionFailed \/ RtCreateSession
    \/ RtSetPartialCallback \/ RtRecvChunk \/ RtRecvNone \/ RtSendChunk
    \/ RtCloseBegin \/ RtCloseTimeout

\* the sender task's steps; Close is sent after a result only, so it is not
\* among them
StalledNext ==
    \/ StalledTaskNext
    \/ DoubaoSendAudio \/ DoubaoSendAudioFailed \/ DoubaoFinish
    \/ QwenSendAudio \/ QwenSendAudioFailed \/ QwenCommit

StalledSpec == StalledInit /\ [][StalledNext]_vars /\ WF_vars(StalledTaskNext)

(***************************************************************************)
(* The realtime task over any RealtimeSession: run_with_details holds the  *)
(* session as Box<dyn RealtimeSession>, and what send_chunk and close      *)
(* return is the environment's input. The variables of the Doubao and Qwen *)
(* sessions stay as they are.                                              *)
(***************************************************************************)
\* the longest recording given to the task over any session
MaxDynChunks == 9

\* what close() of a session can return
CloseReturns == { OkOf(<< "a" >>), ErrOf("Timeout"), ErrOf("InternalError") }

DynInit ==
    /\ FallbackIdle
    /\ HttpIdle
    /\ DelayIdle
    /\ SessionIdle
    /\ UnitsIdle
    /\ asr_config \in { c \in ASRProviderConfigs : c.mode = "Realtime" /\ c.valid }
    /\ rt_pc = "start"
    /\ engine_name = "unknown"
    /\ chunk_source \in { ChunkSource(n) : n \in {2, MaxDynChunks} }
    /\ stop_signal = "Armed"
    /\ chunk_count = 0
    /\ total_samples = 0
    /\ consecutive_send_failures = 0
    /\ send_results = << >>
    /\ rt_result = None

\* create_realtime_session returns Ok(session); set_partial_callback is
\* called on it and the loop is entered
DynCreateSession ==
    /\ rt_pc = "create_session"
    /\ "Realtime" \in supported_modes(create_engine(asr_config).engine)
    /\ rt_pc' = "loop"
    /\ UNCHANGED << not_realtime_vars, session_vars, asr_config, engine_name,
                    chunk_source, stop_signal, chunk_count, total_samples,
                    consecutive_send_failures, send_results, rt_result >>

\* session.send_chunk(&pcm_bytes).await returns Ok(()) or Err
DynSendChunk ==
    /\ rt_pc = "send_chunk"
    /\ \E ok \in BOOLEAN : SendChunkReturned(ok)
    /\ UNCHANGED << not_realtime_vars, session_vars, asr_config, engine_name,
                    chunk_source, stop_signal, chunk_count, total_samples >>

\* session.close().await returns
DynClose ==
    /\ rt_pc = "close"
    /\ \E r \in CloseReturns : Returned(r)
    /\ UNCHANGED << not_realtime_vars, session_vars, asr_config, engine_name,
                    chunk_source, stop_signal, chunk_count, total_samples,
                    consecutive_send_failures, send_results >>

DynNext ==
    \/ RtCreateEngineFailed \/ RtCreateEngine
    \/ RtCreateSessionFailed \/ DynCreateSession
    \/ RtStopFires \/ RtStopDropped \/ RtStop
    \/ RtRecvChunk \/ RtRecvNone
    \/ DynSendChunk \/ DynClose

DynSpec == DynInit /\ [][DynNext]_vars

(***************************************************************************)
(* The binary frames of the Doubao protocol: build_message and the         *)
(* decoding of parse_response, byte by byte. One behaviour is one frame    *)
(* built and then parsed. A JSON text is one of a few shapes, written and  *)
(* read back by to_vec and from_str; gzip is a magic number, the           *)
(* transformed bytes and a length, and GzDecode refuses anything else.     *)
(***************************************************************************)
\* the code of a character in a JSON text
CharCode(c) ==
    CASE c = "a" -> 97
      [] c = "b" -> 98
      [] c = "." -> 46
      [] c = "," -> 44

\* the character of a code
CharOf(b) == CHOOSE c \in Texts \cup Punctuation : CharCode(c) = b

\* String::as_bytes
as_bytes(text) == [k \in 1 .. Len(text) |-> CharCode(text[k])]

\* a JSON object: whether it has the keys of the configuration (user, audio,
\* request), and the string at result.text if it has one
JsonDocs ==
    [request : BOOLEAN, result_text : {None} \cup { Some(t) : t \in ServerTexts }]

\* serde_json::to_vec: {, r for the configuration keys, the quoted
\* result.text, }
to_vec(doc) ==
    << 123 >> \o (IF doc.request THEN << 114 >> ELSE << >>)
              \o (IF doc.result_text = None THEN << >>
                  ELSE << 34 >> \o as_bytes(doc.result_text.value) \o << 34 >>)
              \o << 125 >>

\* serde_json::from_str: the object of a JSON text, Err for any other bytes
from_str(bytes) ==
    IF \E doc \in JsonDocs : to_vec(doc) = bytes
    THEN [tag |-> "Ok", doc |-> CHOOSE doc \in JsonDocs : to_vec(doc) = bytes]
    ELSE ErrOf("InternalError")

\* GzEncoder: write_all(payload), finish()
GzEncode(payload) ==
    << 31, 139 >> \o [k \in 1 .. Len(payload) |-> 255 - payload[k]]
                  \o << Len(payload) % 256 >>

\* GzDecoder: read_to_string
GzDecode(bytes) ==
    IF \/ Len(bytes) < 3
       \/ bytes[1] # 31
       \/ bytes[2] # 139
       \/ bytes[Len(bytes)] # (Len(bytes) - 3) % 256
    THEN ErrOf("InternalError")
    ELSE OkOf([k \in 1 .. Len(bytes) - 3 |-> 255 - bytes[k + 2]])

\* 256 ^ k
RECURSIVE Pow256(_)
Pow256(k) == IF k = 0 THEN 1 ELSE 256 * Pow256(k - 1)

\* i32::to_be_bytes and u32::to_be_bytes: four bytes, the highest first, a
\* negative number in two's complement
to_be_bytes(n) ==
    [k \in 1 .. 4 |->
        IF n >= 0
        THEN (n \div Pow256(4 - k)) % 256
        ELSE 255 - ((((-n) - 1) \div Pow256(4 - k)) % 256)]

\* u32::from_be_bytes
from_be_bytes(bytes) ==
    bytes[1] * Pow256(3) + bytes[2] * Pow256(2) + bytes[3] * 256 + bytes[4]

\* build_message(msg_type, flags, sequence, payload, compression_type), for
\* msg_type and flags of four bits; seq is its sequence
build_message(msg_type, flags, seq, payload, compression_type) ==
    LET final_payload == IF compression_type = 1 THEN GzEncode(payload) ELSE payload
        serialization == IF msg_type = 1 THEN 1 ELSE 0
    IN  << 17, ((msg_type * 16) % 256) + flags, serialization * 16 + compression_type, 0 >>
            \o to_be_bytes(seq)
            \o to_be_bytes(Len(final_payload))
            \o final_payload

\* parse_response from the sequence to json_str, with the payload taken as
\* it is whatever the compression nibble says
json_strNoGzip(data) ==
    LET header_size == (data[1] % 16) * 4
        message_flags == data[2] % 16
        offset == IF message_flags % 2 # 0 THEN header_size + 4 ELSE header_size
    IN  IF message_flags % 2 # 0 /\ Len(data) < header_size + 4 THEN ErrOf("InternalError")
        ELSE IF Len(data) < offset + 4 THEN ErrOf("InternalError")
        ELSE LET payload_size == from_be_bytes(SubSeq(data, offset + 1, offset + 4))
             IN  IF Len(data) < offset + 4 + payload_size THEN ErrOf("InternalError")
                 ELSE OkOf(SubSeq(data, offset + 5, offset + 4 + payload_size))

\* parse_response from the sequence to json_str: the sequence is skipped if
\* bit 0 of the flags is set, the payload size is read, and the payload is
\* decompressed if the compression nibble is 1
json_str(data) ==
    LET header_size == (data[1] % 16) * 4
        message_flags == data[2] % 16
        compression == data[3] % 16
        offset == IF message_flags % 2 # 0 THEN header_size + 4 ELSE header_size
    IN  IF message_flags % 2 # 0 /\ Len(data) < header_size + 4 THEN ErrOf("InternalError")
        ELSE IF Len(data) < offset + 4 THEN ErrOf("InternalError")
        ELSE LET payload_size == from_be_bytes(SubSeq(data, offset + 1, offset + 4))
                 payload_data == SubSeq(data, offset + 5, offset + 4 + payload_size)
             IN  IF Len(data) < offset + 4 + payload_size THEN ErrOf("InternalError")
                 ELSE IF compression = 1 THEN GzDecode(payload_data)
                 ELSE OkOf(payload_data)

\* result["result"]["text"].as_str().unwrap_or("")
ResultText(doc) == IF doc.result_text = None THEN << >> ELSE doc.result_text.value

\* the message parse_response reads from data: the header's message type and
\* flags, the error code of an error message, the result.text of the payload
ReadFrame(data) ==
    IF Len(data) < 4 THEN DoubaoFrame(0, 0, 0, << >>, TRUE)
    ELSE LET header_size == (data[1] % 16) * 4
             message_type == data[2] \div 16
             message_flags == data[2] % 16
         IN  IF message_type = ErrorMessageType
             THEN DoubaoFrame(message_type, message_flags,
                              IF Len(data) >= header_size + 4
                              THEN from_be_bytes(SubSeq(data, header_size + 1, header_size + 4))
                              ELSE 0,
                              << >>, FALSE)
             ELSE IF json_str(data).tag # "Ok" \/ from_str(json_str(data).text).tag # "Ok"
                  THEN DoubaoFrame(message_type, message_flags, 0, << >>, TRUE)
                  ELSE DoubaoFrame(message_type, message_flags, 0,
                                   ResultText(from_str(json_str(data).text).doc), FALSE)

\* payloads given to build_message: JSON texts, audio, nothing
Payloads == { to_vec(doc) : doc \in JsonDocs } \cup { << 0, 1 >>, << >> }

\* sequence numbers given to build_message: the first, and one of a last frame
Sequences == { FirstSequence, -3 }

\* the arguments build_message is called with: the configuration (0x1) or
\* audio (0x2), flags 0x1 or 0x3, no compression or gzip
FrameArgs ==
    [msg_type : {1, 2}, flags : {1, 3}, sequence : Sequences, payload : Payloads,
     compression_type : {0, 1}]

FrameInit ==
    /\ FallbackIdle
    /\ HttpIdle
    /\ DelayIdle
    /\ SessionIdle
    /\ RealtimeTaskIdle
    /\ EngineIdle
    /\ StripIdle
    /\ WrapperIdle
    /\ frame_args \in FrameArgs
    /\ frame_bytes = None
    /\ parsed = None

\* what the codec leaves alone
not_frame_vars == << fallback_vars, http_vars, delay_vars, session_vars, rt_vars,
                    engine_vars, strip_vars, wrapper_vars >>

\* let msg = build_message(..)?
FrameBuild ==
    /\ frame_bytes = None
    /\ frame_bytes' = Some(build_message(frame_args.msg_type, frame_args.flags,
                                         frame_args.sequence, frame_args.payload,
                                         frame_args.compression_type))
    /\ UNCHANGED << not_frame_vars, frame_args, parsed >>

\* parse_response(&msg)
FrameParse ==
    /\ frame_bytes # None
    /\ parsed = None
    /\ parsed' = Some(parse_response(ReadFrame(frame_bytes.value)))
    /\ UNCHANGED << not_frame_vars, frame_args, frame_bytes >>

FrameNext == FrameBuild \/ FrameParse

FrameSpec == FrameInit /\ [][FrameNext]_vars

(***************************************************************************)
(* The ASREngine trait on the five engines. One behaviour is one           *)
(* configuration, the engine create_engine builds from it, and the         *)
(* operations called on that engine; what the provider answers is the      *)
(* environment's input.                                                    *)
(***************************************************************************)
\* how many operations are called on one engine
MaxEngineCalls == 2

\* the operation of the trait that belongs to a mode
ModeOf(op) == IF op = "transcribe" THEN "Http" ELSE "Realtime"

\* Ok(Box<dyn RealtimeSession>)
SessionOf(engine) == [tag |-> "Ok", session |-> engine]

\* transcribe on a realtime engine, made to send the audio as an HTTP engine does
transcribeDegrading(engine, audio_empty) ==
    IF audio_empty
    THEN { [result |-> ErrOf("InvalidAudio"), requests |-> 0] }
    ELSE { [result |-> r, requests |-> n] :
             r \in {OkOf(<< "a" >>), ErrOf("NetworkError")}, n \in 1 .. MaxRetries + 1 }

\* ASREngine::transcribe(audio): what it can return, with the number of
\* requests it has sent. A realtime engine returns at once; an HTTP engine
\* refuses empty audio and else sends one request for each attempt.
transcribe(engine, audio_empty) ==
    IF supported_modes(engine) = {"Realtime"}
    THEN { [result |-> UnsupportedOperation, requests |-> 0] }
    ELSE IF audio_empty
         THEN { [result |-> ErrOf("InvalidAudio"), requests |-> 0] }
         ELSE { [result |-> r, requests |-> n] :
                  r \in {OkOf(<< "a" >>), ErrOf("NetworkError")}, n \in 1 .. MaxRetries + 1 }

\* ASREngine::create_realtime_session(): an HTTP engine returns at once; a
\* realtime engine connects, and returns the session or the error of connect
create_realtime_session(engine) ==
    IF supported_modes(engine) = {"Http"}
    THEN { [result |-> UnsupportedOperation, requests |-> 0] }
    ELSE { [result |-> r, requests |-> 1] :
             r \in {SessionOf(engine), ErrOf("WebSocketError")} }

EngineInit ==
    /\ FallbackIdle
    /\ HttpIdle
    /\ DelayIdle
    /\ SessionIdle
    /\ RealtimeTaskIdle
    /\ FrameIdle
    /\ StripIdle
    /\ WrapperIdle
    /\ engine_config \in ASRProviderConfigs
    /\ created = None
    /\ engine_calls = << >>
    /\ network_requests = 0

\* what a call on the engine leaves alone
not_engine_vars == << fallback_vars, http_vars, delay_vars, session_vars, rt_vars,
                     frame_vars, strip_vars, wrapper_vars >>

\* create_engine(&config)
EngineCreate ==
    /\ created = None
    /\ created' = Some(create_engine(engine_config))
    /\ UNCHANGED << not_engine_vars, engine_config, engine_calls, network_requests >>

\* an engine was built and may be called once more
EngineReady ==
    /\ created # None
    /\ created.value.tag = "Ok"
    /\ Len(engine_calls) < MaxEngineCalls

\* the call of op is over: it made outcome.requests requests and returned
\* outcome.result
EngineCalled(op, outcome) ==
    /\ engine_calls' = Append(engine_calls, [op |-> op, result |-> outcome.result])
    /\ network_requests' = network_requests + outcome.requests
    /\ UNCHANGED << not_engine_vars, engine_config, created >>

\* engine.transcribe(&audio).await
EngineTranscribe ==
    /\ EngineReady
    /\ \E audio_empty \in BOOLEAN :
         \E outcome \in transcribe(created.value.engine, audio_empty) :
            EngineCalled("transcribe", outcome)

\* engine.create_realtime_session().await
EngineCreateRealtimeSession ==
    /\ EngineReady
    /\ \E outcome \in create_realtime_session(created.value.engine) :
         EngineCalled("create_realtime_session", outcome)

EngineNext == EngineCreate \/ EngineTranscribe \/ EngineCreateRealtimeSession

EngineSpec == EngineInit /\ [][EngineNext]_vars

(***************************************************************************)
(* strip_trailing_punctuation, the same function in the three HTTP         *)
(* engines. One behaviour is one String and the calls made on it.          *)
(***************************************************************************)
\* the longest text strip_trailing_punctuation is given
MaxTextLen == 3

\* how often strip_trailing_punctuation is called on one String
MaxStripCalls == 2

\* the characters of a text: letters, and marks of the punctuation list
Chars == Texts \cup Punctuation

\* the Strings of at most n characters
Strings(n) == UNION { [1 .. k -> Chars] : k \in 0 .. n }

StripInit ==
    /\ FallbackIdle
    /\ HttpIdle
    /\ DelayIdle
    /\ SessionIdle
    /\ RealtimeTaskIdle
    /\ EngineIdle
    /\ FrameIdle
    /\ WrapperIdle
    /\ strip_input \in Strings(MaxTextLen)
    /\ strip_text = strip_input
    /\ strip_results = << >>

\* what a call on the String leaves alone
not_strip_vars == << fallback_vars, http_vars, delay_vars, session_vars, rt_vars,
                    engine_vars, frame_vars, wrapper_vars >>

\* strip_trailing_punctuation(&mut text)
StripCall ==
    /\ Len(strip_results) < MaxStripCalls
    /\ strip_text' = strip_trailing_punctuation(strip_text)
    /\ strip_results' = Append(strip_results, strip_text')
    /\ UNCHANGED << not_strip_vars, strip_input >>

StripNext == StripCall

StripSpec == StripInit /\ [][StripNext]_vars

(***************************************************************************)
(* The wrapper run_with_details gives to set_partial_callback: a session   *)
(* that calls its callback calls the wrapper, which spawns one task per    *)
(* text; the task locks the task's partial_callback and calls cb. The      *)
(* runtime runs spawned tasks in an order of its choice.                   *)
(***************************************************************************)
\* how many partial texts the session emits
MaxPartials == 3

\* the partial texts of a session
PartialTexts == ServerTexts \ { << >> }

WrapperInit ==
    /\ FallbackIdle
    /\ HttpIdle
    /\ DelayIdle
    /\ SessionIdle
    /\ RealtimeTaskIdle
    /\ EngineIdle
    /\ FrameIdle
    /\ StripIdle
    /\ user_callback \in { None, Some("cb") }
    /\ emitted = << >>
    /\ spawned = {}
    /\ user_calls = << >>

\* what the wrapper and its tasks leave alone
not_wrapper_vars == << fallback_vars, http_vars, delay_vars, session_vars, rt_vars,
                      engine_vars, frame_vars, strip_vars >>

\* the session calls the wrapper: text.to_string(), tokio::spawn(async move { .. })
WrapperCalled ==
    /\ Len(emitted) < MaxPartials
    /\ \E partial \in PartialTexts : emitted' = Append(emitted, partial)
    /\ spawned' = spawned \cup { Len(emitted) + 1 }
    /\ UNCHANGED << not_wrapper_vars, user_callback, user_calls >>

\* a spawned task runs: if let Some(ref cb) = *callback.lock().await { cb(&text_owned) }
WrapperTaskRuns ==
    /\ \E i \in spawned :
          /\ spawned' = spawned \ { i }
          /\ user_calls' =
                IF user_callback # None
                THEN Append(user_calls, [index |-> i, text |-> emitted[i]])
                ELSE user_calls
    /\ UNCHANGED << not_wrapper_vars, user_callback, emitted >>

WrapperNext == WrapperCalled \/ WrapperTaskRuns

WrapperSpec == WrapperInit /\ [][WrapperNext]_vars

(***************************************************************************)
(* Properties of the fallback strategies.                                  *)
(***************************************************************************)
Done == pc = "done"

\* every attempt of the retry schedule was made and failed
PrimaryExhausted ==
    /\ Len(primary_errors) = retry_config.max_retries + 1
    /\ primary_calls = retry_config.max_retries + 1
    /\ primary_output = None

\* the result a successful primary attempt must give
PrimaryResult ==
    TranscriptionResult(primary_output.text, EngineName(primary_config.provider), FALSE)

\* C1: Sequential strategy: the fallback engine is called only after all
\* max_retries+1 primary attempts have failed and only when enable_fallback is
\* true and a fallback engine is present; then it is called exactly once (no
\* retry), and in every other case it is never called.
C1_SequentialFallbackOnce ==
    strategy = "Sequential" =>
        /\ fallback_calls <= 1
        /\ fallback_calls = 1 => PrimaryExhausted /\ is_fallback_enabled
        /\ Done /\ PrimaryExhausted /\ is_fallback_enabled => fallback_calls = 1
        /\ Done /\ ~(PrimaryExhausted /\ is_fallback_enabled) => fallback_calls = 0

C1_Witness ==
    /\ strategy = "Sequential"
    /\ Done
    /\ retry_config.max_retries = 2
    /\ Len(primary_errors) = 3
    /\ fallback_calls = 1
    /\ fallback_output.tag = "Err"

\* C2: Parallel strategy: whenever a primary attempt succeeds, the returned
\* result has used_fallback = false and the primary's engine name, and the
\* background task has been aborted, whether it was pending or had resolved.
C2_ParallelPrimaryWins ==
    strategy = "Parallel" /\ primary_output # None =>
        /\ Done
        /\ result = PrimaryResult
        /\ is_fallback_enabled => fallback_handle = "Aborted"
        /\ task \notin {"Spawned", "Transcribing"}

C2_Witness ==
    /\ strategy = "Parallel"
    /\ Done
    /\ Len(primary_errors) = 2
    /\ primary_output # None
    /\ fallback_handle = "Aborted"
    /\ task = "Finished"
    /\ fallback_output.tag = "Ok"
    /\ stored_at = "BeforeFirstDelay"

\* C3 as stated: Race strategy, a primary that fails twice and would succeed
\* on its third attempt, a fallback that succeeds immediately: the result has
\* used_fallback = false and the primary's engine name.
C3_AsStated ==
    /\ strategy = "Race"
    /\ Done
    /\ primary_config.valid
    /\ retry_config.max_retries = 2
    /\ primary_ok_at = 2
    /\ fallback_output.tag = "Ok"
    /\ stored_at = "BeforeFirstDelay"
    => /\ result.tag = "Ok"
       /\ result.used_fallback = FALSE
       /\ result.engine = EngineName(primary_config.provider)

\* C3 amended: Race strategy: whenever a primary attempt itself returns
\* success, the returned result has used_fallback = false and the primary's
\* engine name and the task has been aborted, whether it was pending or had
\* resolved during that attempt; a result with used_fallback = true is only
\* returned when no primary attempt has succeeded.
C3_RacePrimaryWins ==
    strategy = "Race" =>
        /\ primary_output # None =>
              /\ Done
              /\ result = PrimaryResult
              /\ is_fallback_enabled => fallback_handle = "Aborted"
              /\ task \notin {"Spawned", "Transcribing"}
        /\ Done /\ result.tag = "Ok" /\ result.used_fallback => primary_output = None

C3_Witness ==
    /\ strategy = "Race"
    /\ Done
    /\ Len(primary_errors) = 2
    /\ primary_output # None
    /\ result = PrimaryResult
    /\ fallback_handle = "Aborted"
    /\ task = "Finished"
    /\ fallback_result.tag = "Ok"

\* C4: Race strategy: a checkpoint stands before each retry delay (before
\* attempts 1..max_retries, never before attempt 0); at a checkpoint where the
\* holder has a successful fallback result, transcribe returns that text with
\* used_fallback = true at once: no delay is slept and no primary attempt is
\* started.
C4_RaceCheckpoint ==
    /\ [](strategy = "Race" /\ pc = "checkpoint" =>
            attempt \in 1 .. retry_config.max_retries /\ Len(sleeps) = attempt - 1)
    /\ [][strategy = "Race" =>
            /\ pc # "sleep" /\ pc' = "sleep" =>
                  pc = "checkpoint" /\ fallback_result.tag # "Ok"
            /\ pc = "in_attempt" /\ pc' \notin {"in_attempt", "done", "after_loop"} =>
                  pc' = "checkpoint"
            /\ pc = "checkpoint" /\ fallback_result.tag = "Ok" =>
                  /\ pc' = "done"
                  /\ result' = TranscriptionResult(fallback_result.text, fallback_name, TRUE)
                  /\ sleeps' = sleeps
                  /\ primary_calls' = primary_calls]_vars

C4_Witness ==
    /\ strategy = "Race"
    /\ Done
    /\ result.tag = "Ok"
    /\ result.used_fallback
    /\ fallback_handle = "Aborted"
    /\ primary_calls = 2
    /\ Len(sleeps) = 1
    /\ retry_config.max_retries = 2

\* C5 as stated: Race strategy, max_retries >= 1, a primary that never
\* succeeds, a fallback that resolves successfully before the first retry delay
\* has elapsed: the result has used_fallback = true and fewer than
\* max_retries+1 primary attempts and fewer than max_retries delays were made.
C5_AsStated ==
    /\ strategy = "Race"
    /\ Done
    /\ primary_config.valid
    /\ retry_config.max_retries >= 1
    /\ primary_ok_at = NeverOk
    /\ fallback_output.tag = "Ok"
    /\ stored_at \in {"BeforeFirstDelay", "InFirstDelay"}
    => /\ result.tag = "Ok"
       /\ result.used_fallback
       /\ primary_calls < retry_config.max_retries + 1
       /\ Len(sleeps) < retry_config.max_retries

\* C5 amended: the same, for a fallback that resolves before the first
\* checkpoint (before the first retry delay starts), or during the first retry
\* delay when max_retries >= 2.
C5_RaceCutsPrimaryShort ==
    /\ strategy = "Race"
    /\ Done
    /\ primary_config.valid
    /\ retry_config.max_retries >= 1
    /\ primary_ok_at = NeverOk
    /\ fallback_output.tag = "Ok"
    /\ \/ stored_at = "BeforeFirstDelay"
       \/ stored_at = "InFirstDelay" /\ retry_config.max_retries >= 2
    => /\ result.tag = "Ok"
       /\ result.used_fallback
       /\ primary_calls < retry_config.max_retries + 1
       /\ Len(sleeps) < retry_config.max_retries

C5_Witness ==
    /\ strategy = "Race"
    /\ Done
    /\ retry_config.max_retries = 1
    /\ primary_ok_at = NeverOk
    /\ stored_at = "BeforeFirstDelay"
    /\ result.tag = "Ok"
    /\ result.used_fallback
    /\ primary_calls = 1
    /\ sleeps = << >>

\* C6: Parallel and Race strategies: the fallback engine call is started at
\* most once per transcribe; when the primary has exhausted its attempts no
\* new call is started, the spawned task is awaited and its outcome is the
\* final outcome: success gives used_fallback = true, failure AllEnginesFailed.
C6_BackgroundTaskAwaited ==
    strategy \in {"Parallel", "Race"} =>
        /\ fallback_calls <= 1
        /\ Done /\ PrimaryExhausted /\ is_fallback_enabled =>
              /\ fallback_handle = "Awaited"
              /\ task \in {"Finished", "Panicked"}
              /\ fallback_output.tag = "Ok" =>
                    result = TranscriptionResult(fallback_output.text, fallback_name, TRUE)
              /\ fallback_output.tag = "Err" =>
                    result = AllEnginesFailed(primary_errors, Some(fallback_output.error))
              /\ fallback_output.tag = "JoinError" =>
                    result = AllEnginesFailed(primary_errors, Some("JoinError"))

C6_Witness ==
    /\ strategy = "Parallel"
    /\ Done
    /\ PrimaryExhausted
    /\ retry_config.max_retries = 2
    /\ fallback_handle = "Awaited"
    /\ fallback_calls = 1
    /\ stored_at = "BeforeFirstDelay"
    /\ result.tag = "Ok"
    /\ result.used_fallback

\* C7: Parallel and Race strategies: on every return path on which the
\* spawned task's result is not used, the task has been aborted, and it is not
\* awaited after that.
C7_UnusedTaskAborted ==
    /\ strategy \in {"Parallel", "Race"}
    /\ Done
    /\ task # "NoTask"
    /\ fallback_handle # "Awaited"
    => fallback_handle = "Aborted"

\* C8: every successful result is tagged consistently: used_fallback is true
\* exactly when the fallback engine produced the returned text, and the engine
\* name is that of the engine that produced it.
C8_ResultTagged ==
    Done /\ result.tag = "Ok" =>
        IF result.used_fallback
        THEN /\ fallback_config # None
             /\ fallback_output = OkOf(result.text)
             /\ primary_output = None
             /\ result.engine = EngineName(fallback_config.provider)
        ELSE /\ primary_output = OkOf(result.text)
             /\ result.engine = EngineName(primary_config.provider)

C8_Witness ==
    /\ strategy = "Race"
    /\ Done
    /\ result.tag = "Ok"
    /\ result.used_fallback
    /\ fallback_handle = "Awaited"
    /\ primary_config.provider # fallback_config.provider

\* C9: when transcribe fails after the primary engine has run, the error is
\* AllEnginesFailed; its primary part is the join of one message per primary
\* attempt, in attempt order, and its fallback part is present exactly when the
\* fallback was invoked and failed.
C9_AggregateError ==
    Done /\ result.tag # "Ok" /\ primary_calls >= 1 =>
        /\ result.tag = "AllEnginesFailed"
        /\ PrimaryExhausted
        /\ result.primary_error = Join(primary_errors, "; ")
        /\ Len(result.primary_error) = 2 * (retry_config.max_retries + 1) - 1
        /\ result.fallback_error # None <=> fallback_output.tag \in {"Err", "JoinError"}
        /\ fallback_output.tag = "Err" => result.fallback_error = Some(fallback_output.error)
        /\ ~is_fallback_enabled => result.fallback_error = None

C9_Witness ==
    /\ strategy = "Sequential"
    /\ Done
    /\ ~enable_fallback
    /\ fallback_config # None
    /\ retry_config.max_retries = 2
    /\ result.tag = "AllEnginesFailed"
    /\ result.primary_error = << "NetworkError", "; ", "Timeout", "; ", "AuthFailed" >>
    /\ result.fallback_error = None

\* the error kinds the propagation policy says are not retried
NotRetried == {"AuthFailed", "QuotaExceeded"}

\* C10: in every strategy, once a primary attempt has failed with an
\* auth-failure or quota-exceeded error the primary is not attempted again.
C10_NoRetryAfterAuthOrQuota ==
    \A i \in 1 .. Len(primary_errors) :
        primary_errors[i] \in NotRetried => primary_calls <= i

\* the error kinds the propagation policy calls structural: they fail fast
FailFast == {"InvalidAudio"}

\* C11: in every strategy, once a primary attempt has failed with an
\* invalid-audio error the primary is not attempted again and the fallback
\* engine's transcribe is never called.
C11_FailFastOnInvalidAudio ==
    \A i \in 1 .. Len(primary_errors) :
        primary_errors[i] \in FailFast => primary_calls <= i /\ fallback_calls = 0

(***************************************************************************)
(* Properties of the HTTP engines.                                         *)
(***************************************************************************)
\* C12: one call of an HTTP engine's transcribe sends at most one provider
\* request: a failed request is not retried inside the engine.
C12_OneRequestPerCall == http_requests <= 1

\* C13: transcribe on an empty audio buffer returns the invalid-audio error
\* without entering the loop: no attempt, no provider request, no delay.
C13_EmptyAudioRejected ==
    http_audio.empty /\ http_pc # "start" =>
        /\ http_pc = "done"
        /\ http_result = ErrOf("InvalidAudio")
        /\ http_attempt = 0
        /\ http_requests = 0
        /\ http_sleeps = << >>
        /\ last_error = None

C13_Witness ==
    /\ http_provider = "SenseVoice"
    /\ http_audio.empty
    /\ http_audio.wav_ok
    /\ http_retry_config.max_retries = 2
    /\ http_pc = "done"
    /\ http_result = ErrOf("InvalidAudio")

(***************************************************************************)
(* Properties of the retry delay.                                          *)
(***************************************************************************)
\* base_delay_ms * 2^(k-1) as a number of unbounded width
ExactDelay(base, k) == { b + (k - 1) : b \in base }

\* C14: for every retry policy every attempt index k in 0..max_retries is
\* reached when the attempts before it fail, and the delay slept before
\* attempt k is base_delay * 2^(k-1) milliseconds when k >= 1 and no sleep
\* when k = 0: no jitter, no cap.
C14_DelayIsExponential ==
    /\ delay_pc # "panicked"
    /\ delay_pc = "attempt" =>
          delay = IF delay_attempt = 0
                  THEN NoSleep
                  ELSE Slept(ExactDelay(delay_policy.base_delay_ms, delay_attempt))

(***************************************************************************)
(* Properties of the streaming sessions.                                   *)
(***************************************************************************)
\* C15: the receive path produces exactly one terminal outcome: never a
\* second one, and once the receive task has ended one was sent on the
\* result channel.
C15_ExactlyOneOutcome ==
    /\ Len(outcomes) <= 1
    /\ recv_task = "Ended" => Len(outcomes) = 1

\* C16: once close() has returned, a later send_chunk is rejected with an
\* error and no audio frame of a later chunk is written to the connection.
C16_ClosedRejectsChunks == late_accepted = 0 /\ late_written = 0

\* what a dropped connection resolves to: the accumulated text if there is
\* one, else the wire error
PartialCredit(text, kept) == IF text # << >> THEN OkOf(kept) ELSE ErrOf("WebSocketError")

\* C17: a Doubao session whose connection is dropped (close frame, transport
\* error, end of stream) before a final response resolves to Ok of the
\* accumulated text if that is non-empty and to the WebSocket error if not.
C17_DoubaoDropKeepsText ==
    session_provider = "Doubao" /\ dropped_with # None =>
        outcomes = << PartialCredit(dropped_with.value.text, dropped_with.value.text) >>

\* C18: a Qwen session whose connection is dropped before it resolved
\* resolves, for close() to return, to Ok of the accumulated text (stripped of
\* punctuation) if that is non-empty, also when it came from delta events
\* only, and to the WebSocket error if not.
C18_QwenDropKeepsText ==
    session_provider = "Qwen" /\ dropped_with # None =>
        outcomes = << PartialCredit(dropped_with.value.text,
                                    strip_punctuation(dropped_with.value.text)) >>

\* C19: a Doubao message of the error type is fatal: once one is received
\* the session has resolved to the WebSocket error carrying its code and the
\* receive task has ended.
C19_ErrorMessageFatal ==
    session_provider = "Doubao" /\ error_frame # None =>
        /\ outcomes = << ServerError(error_frame.value) >>
        /\ recv_task = "Ended"

\* C20: no non-empty interim text received after set_partial_callback is
\* taken from the partial-text channel without the callback being invoked
\* with it.
C20_InterimDelivered == discarded = 0

(***************************************************************************)
(* Properties of the streaming sessions' protocols.                        *)
(***************************************************************************)
\* C21: on a Doubao session the audio frames written carry sequence numbers
\* that grow by one per audio chunk, starting from the configuration
\* message's; the end-of-stream frame carries a negative sequence number
\* whose magnitude is greater than every sequence number written before it,
\* and it is the last frame written: no audio frame follows it.
C21_SequenceNumbers ==
    session_provider = "Doubao" =>
        \A j \in 1 .. Len(written) :
            /\ written[j].type = "audio" =>
                  /\ j > 1
                  /\ written[j].sequence = written[j - 1].sequence + 1
            /\ written[j].type = "finish" =>
                  /\ j = Len(written)
                  /\ written[j].sequence < 0
                  /\ \A i \in 1 .. j - 1 : written[i].sequence < -written[j].sequence

\* two chunks were sent and close() made the sender write the last frame
C21_Witness ==
    /\ session_provider = "Doubao"
    /\ Len(written) = 4
    /\ written[2].type = "audio" /\ written[2].chunk = 1 /\ written[2].sequence = 2
    /\ written[3].type = "audio" /\ written[3].chunk = 2 /\ written[3].sequence = 3
    /\ written[4].type = "finish" /\ written[4].sequence = -4
    /\ cmd_rx = "Dropped"

\* the receive task sent Ok(text) on the result channel
ResolvedOk == outcomes # << >> /\ outcomes[1].tag = "Ok"

\* C23 as stated: a Qwen session is resolved with a final text exactly when
\* an event of a completion type has been read and the accumulated text is
\* not empty.
C23_AsStated ==
    session_provider = "Qwen" =>
        (ResolvedOk <=> completion_seen # "No" /\ accumulated_text # << >>)

\* C23: a Qwen session is resolved with a final text, the accumulated text
\* without its punctuation, exactly when the accumulated text is not empty
\* and a completion event that counts has been read: a transcription
\* completed event carrying a transcript, audio_transcript.done or
\* response.done. A completion event with an empty accumulated text does
\* not resolve it, text without such an event does not resolve it.
C23_ResolvedOnResult ==
    session_provider = "Qwen" =>
        /\ ResolvedOk <=> completion_seen = "Yes" /\ accumulated_text # << >>
        /\ ResolvedOk => /\ outcomes = << OkOf(strip_punctuation(accumulated_text)) >>
                         /\ recv_task = "Ended"
        /\ has_result <=> completion_seen = "Yes"

\* response.done came first and did not resolve the session; the text that
\* came after it did
C23_Witness ==
    /\ session_provider = "Qwen"
    /\ messages = 2
    /\ completion_seen = "Yes"
    /\ accumulated_text = << "b", "." >>
    /\ Len(partial_queue) + discarded = 1
    /\ outcomes = << OkOf(<< "b" >>) >>

\* C24: on a Qwen session the first event written is session.update and it
\* is written once; the events after it are input_audio_buffer.append
\* events up to the input_audio_buffer.commit that close() sends, and no
\* append event is written after a commit.
C24_QwenEventOrder ==
    session_provider = "Qwen" =>
        /\ written[1].type = "session.update"
        /\ \A j \in 2 .. Len(written) :
              /\ written[j].type # "session.update"
              /\ written[j].type = "audio" =>
                    \A i \in 1 .. j - 1 : written[i].type # "commit"

(***************************************************************************)
(* Properties of the realtime transcription task.                          *)
(***************************************************************************)
IsAudio(frame) == frame.type = "audio"

\* the audio frames written to the connection, in the order written
AudioWritten == SelectSeq(written, IsAudio)

\* the chunks run_with_details has taken from chunk_receiver
Taken == Len(send_results) + (IF rt_pc = "send_chunk" THEN 1 ELSE 0)

\* the samples of the first n chunks of the recording
RECURSIVE SamplesOf(_)
SamplesOf(n) == IF n = 0 THEN 0 ELSE ChunkSource(n)[n] + SamplesOf(n - 1)

\* C22: the audio frames written to the connection carry the chunks taken
\* from the chunk source in the order they were taken, without a gap, a
\* repetition or a swap: the k-th audio frame is the k-th chunk taken, in
\* every interleaving of the realtime task with the sender and the receive
\* task.
C22_ChunksInOrder ==
    session_provider \in SessionProviders =>
        /\ Len(AudioWritten) <= Taken
        /\ \A k \in 1 .. Len(AudioWritten) : AudioWritten[k].chunk = k
        /\ \A k \in 1 .. Len(cmd_queue) :
              cmd_queue[k].cmd = "SendAudio" =>
                  /\ cmd_queue[k].chunk = Len(AudioWritten) + k
                  /\ cmd_queue[k].chunk <= Taken

\* four chunks were written in order while a fifth waits in the channel and
\* the receive task has read two messages
C22_Witness ==
    /\ session_provider = "Qwen"
    /\ Taken = 5
    /\ Len(AudioWritten) = 4
    /\ AudioWritten[4].chunk = 4
    /\ Len(cmd_queue) = 1
    /\ messages = 2
    /\ recv_task = "Running"

\* the number of Err results at the end of send_results
RECURSIVE TrailingFailures(_)
TrailingFailures(results) ==
    IF results = << >> \/ results[Len(results)] THEN 0
    ELSE 1 + TrailingFailures(SubSeq(results, 1, Len(results) - 1))

\* run_with_details returned from inside its loop: a session was created,
\* close() was not called
AbortedInLoop ==
    /\ session_provider \in SessionProviders
    /\ rt_pc = "done"
    /\ closes = 0

\* C26: the task is aborted when, and only when, the last 5 send_chunk
\* calls in a row have failed: never after fewer, and no sixth failing call
\* is made. The Failed record carries a WebSocketError, the engine's name,
\* and as chunks_sent and samples_sent the number of chunks taken from the
\* chunk source up to then, the 5 that failed included, and their samples.
C26_CircuitBreaker ==
    session_provider \in SessionProviders =>
        /\ TrailingFailures(send_results) <= MAX_CONSECUTIVE_FAILURES
        /\ AbortedInLoop <=> TrailingFailures(send_results) = MAX_CONSECUTIVE_FAILURES
        /\ AbortedInLoop =>
              rt_result = Some(Failed(ErrOf("WebSocketError"),
                                      EngineName(session_provider),
                                      Len(send_results),
                                      SamplesOf(Len(send_results))))

\* the first chunk was accepted, its write failed, and the five chunks after
\* it were refused
C26_Witness ==
    /\ session_provider = "Doubao"
    /\ send_results = << TRUE, FALSE, FALSE, FALSE, FALSE, FALSE >>
    /\ rt_pc = "done"
    /\ rt_result.value.chunks_sent = 6
    /\ rt_result.value.samples_sent = 9
    /\ AudioWritten = << >>

\* what run_with_details returns after session.close() has returned
AfterClose(closed) ==
    IF closed.tag = "Ok"
    THEN Success(closed.text, EngineName(session_provider))
    ELSE Failed(closed, EngineName(session_provider),
                Len(send_results), SamplesOf(Len(send_results)))

\* the loop of run_with_details was left by a break
LoopLeft == rt_pc \in {"close", "close_wait"} \/ (rt_pc = "done" /\ closes > 0)

\* the states of a task with a session: close() is called at most once, only
\* after a break, and the value returned is built from what close() returned
C27_ClosedOnce ==
    session_provider \in SessionProviders =>
        /\ closes <= 1
        /\ LoopLeft => chunk_source = << >> \/ stop_signal \in {"Fired", "Dropped"}
        /\ rt_pc = "close" => closes = 0 /\ rt_result = None
        /\ rt_pc = "close_wait" => closes = 1 /\ rt_result = None
        /\ rt_pc = "done" =>
              \/ /\ closes = 0
                 /\ TrailingFailures(send_results) = MAX_CONSECUTIVE_FAILURES
              \/ /\ closes = 1
                 /\ close_result # None
                 /\ rt_result = Some(AfterClose(close_result.value))

\* the steps of a task: an awaited send_chunk ends in the loop or in the
\* abort, close() is called from after the loop, and after a break no chunk
\* is taken or sent
C27_TaskStep ==
    /\ rt_pc = "send_chunk" /\ rt_pc' # rt_pc =>
          /\ rt_pc' \in {"loop", "done"}
          /\ Len(send_results') = Len(send_results) + 1
    /\ closes' # closes => rt_pc = "close" /\ closes' = 1
    /\ LoopLeft => /\ LoopLeft'
                   /\ chunks' = chunks
                   /\ chunk_count' = chunk_count
                   /\ chunk_source' = chunk_source
                   /\ send_results' = send_results

\* C27: the loop of the task is left only when the chunk source is
\* exhausted or the stop signal has fired (its receiver has completed); from then on no chunk is taken or
\* sent, close() is called once, and the task returns Success with the text
\* of close() in a TranscriptionResult, or Failed with the error of close(),
\* the engine's name and the counters of the chunks and samples taken. A
\* send_chunk in progress is always completed before anything else: the
\* stop signal does not end it. A task aborted by the circuit breaker has
\* not called close().
C27_CloseOnExhaustionOrStop == []C27_ClosedOnce /\ [][C27_TaskStep]_vars

\* the stop signal ended a task that still had chunks to take, and close()
\* returned a text
C27_Witness ==
    /\ session_provider = "Doubao"
    /\ rt_pc = "done"
    /\ stop_signal = "Fired"
    /\ chunk_source # << >>
    /\ chunk_count = 2
    /\ closes = 1
    /\ rt_result.value.tag = "Success"
    /\ rt_result.value.result.text # << >>

EndsInPunctuation(text) == text # << >> /\ text[Len(text)] \in Punctuation

\* short is the start of long
IsPrefix(short, long) ==
    /\ Len(short) <= Len(long)
    /\ short = SubSeq(long, 1, Len(short))

\* C30: for every string, the string left by strip_trailing_punctuation is
\* a prefix of the string given, it does not end in a character of the
\* punctuation list, and everything removed was punctuation; a string that
\* does not end in punctuation is left as it is; and a second call leaves
\* what the first call left.
C30_StripIdempotent ==
    /\ Len(strip_results) >= 1 =>
          /\ IsPrefix(strip_results[1], strip_input)
          /\ ~EndsInPunctuation(strip_results[1])
          /\ \A k \in Len(strip_results[1]) + 1 .. Len(strip_input) :
                 strip_input[k] \in Punctuation
          /\ ~EndsInPunctuation(strip_input) => strip_results[1] = strip_input
          /\ strip_text = strip_results[Len(strip_results)]
    /\ Len(strip_results) >= 2 => strip_results[2] = strip_results[1]

\* a text with a mark at its start and one at its end, stripped twice
C30_Witness ==
    /\ strip_input = << ",", "a", "." >>
    /\ strip_results = << << ",", "a" >>, << ",", "a" >> >>

\* the engine create_engine built
Engine == created.value.engine

\* the operation of the engine's last call belongs to a mode the engine does
\* not support
LastUnsupported(calls) ==
    calls # << >> /\ ModeOf(calls[Len(calls)].op) \notin supported_modes(Engine)

\* every engine supports one mode, and each call of the other mode's
\* operation has returned Err(UnsupportedOperation)
C28_OtherModeFails ==
    created # None /\ created.value.tag = "Ok" =>
        /\ Cardinality(supported_modes(Engine)) = 1
        /\ \A k \in 1 .. Len(engine_calls) :
              ModeOf(engine_calls[k].op) \notin supported_modes(Engine) =>
                  engine_calls[k].result = UnsupportedOperation

\* a call of the other mode's operation makes no request and no connection
C28_NoNetwork ==
    engine_calls' # engine_calls /\ LastUnsupported(engine_calls') =>
        network_requests' = network_requests

\* C28: each engine supports one mode only; create_realtime_session on an
\* HTTP engine and transcribe on a realtime engine return
\* Err(UnsupportedOperation), never a session or a text, and make no request
\* and no connection.
C28_UnsupportedOperation == []C28_OtherModeFails /\ [][C28_NoNetwork]_vars

\* transcribe was refused by the Doubao realtime engine, which then opened a
\* session
C28_Witness ==
    /\ created = Some(create_engine([provider |-> "Doubao", mode |-> "Realtime",
                                     valid |-> TRUE, credentials |-> TRUE]))
    /\ engine_calls = << [op |-> "transcribe", result |-> UnsupportedOperation],
                         [op |-> "create_realtime_session",
                          result |-> SessionOf("DoubaoRealtimeEngine")] >>
    /\ network_requests = 1

\* the frame is a configuration message: type 0x1, gzip, a JSON payload
ConfigurationFrame ==
    /\ frame_args.msg_type = 1
    /\ frame_args.compression_type = 1
    /\ from_str(frame_args.payload).tag = "Ok"

\* the JSON object of the frame's payload
PayloadDoc == from_str(frame_args.payload).doc

\* C29, as the claim states it: parse_response of the bytes of a
\* configuration message returns the JSON payload that was encoded.
C29_AsStated ==
    ConfigurationFrame /\ parsed # None =>
        /\ parsed.value.tag = "Ok"
        /\ as_bytes(parsed.value.text) = frame_args.payload

\* C29: in the bytes of a configuration message the compression nibble is 1
\* and the payload is not the JSON text but its gzip form; parse_response
\* skips the sequence, reads the payload size and decompresses the payload
\* to the JSON text that was encoded. What it returns is not that text: it is
\* the string at result.text of the JSON with the last-frame flag, and for a
\* JSON without a result.text, as the configuration is, the empty text if
\* the last-frame flag is set and Err(InternalError) if it is not.
C29_ConfigurationDecoded ==
    ConfigurationFrame /\ parsed # None =>
        /\ frame_bytes.value[3] % 16 = 1
        /\ SubSeq(frame_bytes.value, 13, Len(frame_bytes.value)) = GzEncode(frame_args.payload)
        /\ GzEncode(frame_args.payload) # frame_args.payload
        /\ json_str(frame_bytes.value) = OkOf(frame_args.payload)
        /\ parsed.value =
              IF frame_args.flags = 3 \/ ResultText(PayloadDoc) # << >>
              THEN [tag |-> "Ok", text |-> ResultText(PayloadDoc),
                    is_last |-> frame_args.flags = 3]
              ELSE ErrOf("InternalError")

\* the configuration of connect, built as connect builds it and parsed
C29_Witness ==
    /\ frame_args = [msg_type |-> 1, flags |-> 1, sequence |-> FirstSequence,
                     payload |-> to_vec([request |-> TRUE, result_text |-> None]),
                     compression_type |-> 1]
    /\ frame_bytes = Some(<< 17, 17, 17, 0, 0, 0, 0, 1, 0, 0, 0, 6,
                             31, 139, 132, 141, 130, 3 >>)
    /\ parsed = Some(ErrOf("InternalError"))

\* the count of the circuit breaker is the length of the run of failed
\* send_chunk calls at the end of the calls made; a run of 5 has ended the task
C31_RunOfFailures ==
    /\ rt_pc # "done" => consecutive_send_failures = TrailingFailures(send_results)
    /\ TrailingFailures(send_results) <= MAX_CONSECUTIVE_FAILURES
    /\ TrailingFailures(send_results) = MAX_CONSECUTIVE_FAILURES =>
          /\ rt_pc = "done"
          /\ rt_result = Some(Failed(ErrOf("WebSocketError"), engine_name,
                                     Len(send_results), SamplesOf(Len(send_results))))

\* a send_chunk that returns ends the task exactly when it is the fifth
\* failure in a row
C31_SendStep ==
    rt_pc = "send_chunk" /\ rt_pc' # rt_pc =>
        /\ Len(send_results') = Len(send_results) + 1
        /\ rt_pc' = "done" <=> TrailingFailures(send_results') = MAX_CONSECUTIVE_FAILURES
        /\ rt_pc' # "done" => rt_pc' = "loop"

\* C31: the circuit breaker counts the failed send_chunk calls since the last
\* successful one: an Ok sets the count to zero. The task is aborted by a
\* send_chunk exactly when 5 calls in a row have failed, and after failures
\* in runs shorter than 5, however many, it goes on.
C31_OnlyConsecutive == []C31_RunOfFailures /\ [][C31_SendStep]_vars

\* eight failures, in two runs of four with a success between them, and the
\* task goes on
C31_Witness ==
    /\ send_results = << FALSE, FALSE, FALSE, FALSE, TRUE, FALSE, FALSE, FALSE, FALSE >>
    /\ rt_pc = "loop"
    /\ consecutive_send_failures = 4
    /\ rt_result = None

\* transcribe returns in this step
Returns == result = None /\ result' # None

\* the holder has the fallback's text while transcribe is in a primary attempt
\* or in a retry delay
AvailableOffCheckpoint == fallback_result.tag = "Ok" /\ pc \in {"in_attempt", "sleep"}

\* the steps of RaceStrategy::transcribe around an available fallback text
C32_RaceStep ==
    strategy = "Race" =>
        /\ Returns /\ result'.tag = "Ok" /\ result'.used_fallback =>
              pc \in {"checkpoint", "await"}
        /\ AvailableOffCheckpoint /\ pc' # pc =>
              /\ pc = "sleep" => pc' = "attempt" /\ result' = None
              /\ pc = "in_attempt" /\ attempt = primary_ok_at =>
                    /\ pc' = "done"
                    /\ result'.tag = "Ok"
                    /\ ~result'.used_fallback
                    /\ result'.engine = EngineName(primary_config.provider)
              /\ pc = "in_attempt" /\ attempt # primary_ok_at =>
                    /\ result' = None
                    /\ pc' = IF attempt < retry_config.max_retries
                             THEN "checkpoint" ELSE "after_loop"
        /\ pc = "after_loop" /\ pc' # pc =>
              \/ pc' = "await" /\ result' = None
              \/ pc' = "done" /\ fallback_handle = "NoHandle"
        /\ pc = "await" /\ Returns =>
              result' = IF task = "Panicked"
                        THEN AllEnginesFailed(primary_errors, Some("JoinError"))
                        ELSE IF fallback_output.tag = "Ok"
                        THEN TranscriptionResult(fallback_output.text, fallback_name, TRUE)
                        ELSE AllEnginesFailed(primary_errors, Some(fallback_output.error))

\* C32: Race strategy: the fallback's text is returned only by a checkpoint
\* or by the await after the loop. A text stored during a primary attempt or
\* during a retry delay changes nothing until then: the delay runs to its
\* end and the next attempt starts, an attempt in progress that succeeds
\* returns the primary's result, and one that fails goes to the next
\* checkpoint or, if it was the last, out of the loop, where the fallback's
\* outcome is what the awaited task returns.
C32_CheckpointOnly == [][C32_RaceStep]_vars

\* the fallback answered during the first retry delay, and the attempt after
\* that delay succeeded: the primary's result was returned
C32_Witness ==
    /\ strategy = "Race"
    /\ Done
    /\ fallback_result.tag = "Ok"
    /\ stored_at = "InFirstDelay"
    /\ primary_calls = 2
    /\ result.tag = "Ok"
    /\ ~result.used_fallback
    /\ task = "Finished"

\* C33: the primary engine's transcribe is invoked at most max_retries + 1
\* times in one orchestrator call, and exactly max_retries + 1 times once
\* the loop over a primary that fails every attempt has ended, a timed-out
\* attempt counting as one. (delay_attempt is the number of attempts made.)
C33_PrimaryAttempts ==
    /\ delay_attempt <= delay_policy.max_retries + 1
    /\ delay_pc \in {"done", "panicked"} =>
          delay_attempt = delay_policy.max_retries + 1

\* a step of the spawned task: it calls the engine, ends or panics
TaskStepTaken == task' # task /\ task' \in {"Transcribing", "Finished", "Panicked"}

\* the steps that touch the holder, and the state each side writes
C34_HolderStep ==
    strategy = "Race" =>
        /\ fallback_result' # fallback_result =>
              /\ fallback_result = None
              /\ fallback_result' # None
              /\ task = "Transcribing" /\ task' = "Finished"
              /\ fallback_result' = fallback_output'
              /\ UNCHANGED << pc, primary_vars, fallback_handle, result >>
        /\ pc' # pc => UNCHANGED << fallback_result, fallback_output, fallback_calls >>
        /\ TaskStepTaken => UNCHANGED << pc, primary_vars, fallback_handle, result >>
        /\ (pc # "checkpoint" /\ Returns /\ result'.tag = "Ok" /\ result'.used_fallback) =>
              pc = "await" /\ result'.text = fallback_output.text

\* C34: Race strategy: the holder shared by transcribe and its background
\* task is empty until the task writes it, is written at most once, by the
\* task's store and by nothing else, and is never emptied again; a step of
\* transcribe writes nothing the task writes and a step of the task writes
\* nothing transcribe writes, and outside the checkpoint transcribe takes the
\* fallback's answer from the awaited task, not from the holder.
C34_HolderWrittenOnce ==
    /\ [](task \in {"NoTask", "Spawned", "Transcribing"} => fallback_result = None)
    /\ [][C34_HolderStep]_vars

\* the task stored an error before the first delay, and the loop passed its
\* checkpoints and returned with the holder as the task left it
C34_Witness ==
    /\ strategy = "Race"
    /\ Done
    /\ fallback_result.tag = "Err"
    /\ fallback_result = fallback_output
    /\ stored_at = "BeforeFirstDelay"
    /\ primary_calls = 3
    /\ Len(sleeps) = 2

\* the receive task resolves the session in this step
Resolves == Len(outcomes') = Len(outcomes) + 1

\* a step of Doubao's receive task, against the texts of the responses read
C35_RecvStep ==
    session_provider = "Doubao" =>
        /\ recent_text' = recent_text => accumulated_text' = accumulated_text
        /\ (Resolves /\ outcomes'[Len(outcomes')].tag = "Ok") =>
              outcomes'[Len(outcomes')].text = recent_text'

\* C35: Doubao session: the accumulated text is always the text of the most
\* recent response that had a non-empty text (it replaces, never appends),
\* a response without text leaves it as it is, and the text the session
\* resolves with on the final response is that accumulated text.
C35_TextReplaced ==
    /\ [](session_provider = "Doubao" => accumulated_text = recent_text)
    /\ [][C35_RecvStep]_vars

\* "a" was received, then "b." in the final response: the session resolved
\* with "b.", not with "ab."
C35_Witness ==
    /\ session_provider = "Doubao"
    /\ messages = 3
    /\ Len(delivered) + Len(partial_queue) = 2
    /\ recent_text = << "b", "." >>
    /\ outcomes = << OkOf(<< "b", "." >>) >>
    /\ recv_task = "Ended"

StoredFailure == strategy = "Race" /\ fallback_result.tag = "Err"

\* the steps of RaceStrategy::transcribe once the fallback's failure is stored
C37_FailureStep ==
    StoredFailure =>
        /\ pc = "checkpoint" /\ pc' # pc =>
              /\ pc' = "sleep"
              /\ UNCHANGED << result, primary_vars, task_vars >>
        /\ pc = "sleep" /\ pc' # pc =>
              /\ pc' = "attempt"
              /\ sleeps' = Append(sleeps, RetryDelay(retry_config.base_delay_ms, attempt))
              /\ result' = None
        /\ Returns =>
              \/ /\ pc = "in_attempt"
                 /\ attempt = primary_ok_at
                 /\ result' = TranscriptionResult(primary_output'.text,
                                                  EngineName(primary_config.provider), FALSE)
              \/ /\ pc = "await"
                 /\ primary_calls = retry_config.max_retries + 1
                 /\ Len(sleeps) = retry_config.max_retries
                 /\ Len(primary_errors) = retry_config.max_retries + 1
                 /\ result' = AllEnginesFailed(primary_errors, Some(fallback_result.error))

\* C37: Race strategy: a failure of the fallback stored in the holder never
\* ends the primary's work: every checkpoint that finds it goes on to the
\* retry delay, the delays and attempts are those of the retry schedule, a
\* primary attempt that succeeds still returns the primary's result, and
\* when all max_retries + 1 attempts have failed the result is
\* AllEnginesFailed with the primary's errors and that fallback error.
C37_FailureNeverPreempts == [][C37_FailureStep]_vars

\* the fallback failed before the first checkpoint, the primary made all its
\* attempts with both delays, and the aggregate error carries the fallback's
C37_Witness ==
    /\ StoredFailure
    /\ stored_at = "BeforeFirstDelay"
    /\ Done
    /\ retry_config.max_retries = 2
    /\ primary_calls = 3
    /\ Len(sleeps) = 2
    /\ result = AllEnginesFailed(primary_errors, Some(fallback_result.error))
    /\ fallback_handle = "Awaited"

(***************************************************************************)
(* Termination of the strategies.                                          *)
(***************************************************************************)
\* C38: when every engine call returns, a transcribe call comes to its end:
\* the loop over the primary's attempts is left after at most
\* max_retries + 1 calls, from where the strategy returns its one outcome
\* (the fallback's, the awaited task's, or AllEnginesFailed).
C38_LoopEnds ==
    /\ [](delay_attempt <= delay_policy.max_retries + 1)
    /\ <>(delay_pc = "done")

\* the index of the first send_chunk call that returned an error, 0 if none did
FirstFailure(results) ==
    IF \A j \in 1 .. Len(results) : results[j] THEN 0
    ELSE CHOOSE j \in 1 .. Len(results) :
            ~results[j] /\ \A k \in 1 .. j - 1 : results[k]

\* C39: a send_chunk that returned an error is followed by errors only: the
\* sender task has ended and its channel stays closed. So in the realtime
\* task the first failed send_chunk is followed by the circuit breaker's
\* abort at the fourth chunk after it, and by no abort before: with fewer
\* chunks after it the task is still in its loop or left it by the end of
\* the chunk source or the stop signal.
C39_SendFailurePermanent ==
    (session_provider \in SessionProviders /\ FirstFailure(send_results) > 0) =>
        LET first == FirstFailure(send_results)
        IN  /\ \A k \in first .. Len(send_results) : ~send_results[k]
            /\ cmd_rx = "Dropped"
            /\ Len(send_results) <= first + MAX_CONSECUTIVE_FAILURES - 1
            /\ AbortedInLoop <=> Len(send_results) = first + MAX_CONSECUTIVE_FAILURES - 1
            /\ (rt_pc = "done" /\ ~AbortedInLoop) =>
                  chunk_source = << >> \/ stop_signal \in {"Fired", "Dropped"}

\* Qwen: the second chunk was refused, and the task was aborted when the
\* fourth chunk after it was refused too
C39_Witness ==
    /\ session_provider = "Qwen"
    /\ send_results = << TRUE, FALSE, FALSE, FALSE, FALSE, FALSE >>
    /\ cmd_rx = "Dropped"
    /\ rt_pc = "done"
    /\ closes = 0
    /\ rt_result.value.tag = "Failed"

\* the states of a task whose stop trigger was dropped without a send
C40_DroppedState ==
    (session_provider \in SessionProviders /\ stop_signal = "Dropped") =>
        /\ rt_pc = "loop" => ENABLED RtStop
        /\ LoopLeft /\ rt_pc = "done" =>
              /\ closes = 1
              /\ rt_result = Some(AfterClose(close_result.value))
              /\ chunks = chunk_count

\* the steps of such a task: the break leaves the queued chunks where they
\* are, and after it nothing is taken or sent
C40_DroppedStep ==
    stop_signal = "Dropped" =>
        /\ stop_signal' = "Dropped"
        /\ (rt_pc = "loop" /\ rt_pc' = "close") =>
              UNCHANGED << chunk_source, chunk_count, chunks, send_results, rt_result >>
        /\ LoopLeft =>
              /\ LoopLeft'
              /\ UNCHANGED << chunk_source, chunk_count, chunks, send_results >>

\* C40: a stop trigger dropped without being fired ends the task like a
\* fired one: the stop branch of the loop can be taken, the task then calls
\* close() on the session once and returns what close() gave, and the
\* chunks still in the chunk source when the loop is left are never sent.
C40_DropIsStop == []C40_DroppedState /\ [][C40_DroppedStep]_vars

\* the trigger was dropped after two chunks of six; the task closed the
\* session and returned its text with the other chunks unsent
C40_Witness ==
    /\ session_provider = "Qwen"
    /\ stop_signal = "Dropped"
    /\ rt_pc = "done"
    /\ Len(chunk_source) = MaxSourceChunks - 2
    /\ chunks = 2
    /\ closes = 1
    /\ rt_result.value.tag = "Success"

====
